---- MODULE Spec2Model ----
(***************************************************************************)
(* termagent: the conversation store (src/src/conversation/index.js), the  *)
(* agent loop (Agent.chat) and the run_command confirmation gate           *)
(* (src/src/tools/shell.js, ChatRepl.confirmCommand).                      *)
(*                                                                         *)
(* Message contents are modelled by their length in characters: the store  *)
(* only measures contents (estimateTokens, the truncation ceiling) and     *)
(* tests them for emptiness.  Null is the JavaScript null.                 *)
(***************************************************************************)
EXTENDS Integers, Sequences, FiniteSets, TLC

VARIABLES
  messages,      \* ConversationManager.messages
  view,          \* the value returned by the last getMessages()
  viewPath,      \* the return statement of getMessages() that produced it
  nextId,        \* the next tool-call id the provider will assign
  appended,      \* store operations performed since construction or load
  pc,            \* where Agent.chat() is suspended
  iterations,    \* chat(): iterations
  content,       \* chat(): content, the text accumulated in this turn
  toolCalls,     \* chat(): toolCalls of this turn
  callIdx,       \* chat(): position of the for loop in validToolCalls
  events,        \* what this chat() invocation has yielded so far
  streamCalls,   \* provider.stream calls of this chat() invocation
  toolRuns,      \* executeTool calls of this chat() invocation
  confirmed,     \* execute(): what confirmCallback answered for this call
  started,       \* commands runCommand has spawned, and whether confirmed
  sessionAllowedPatterns,  \* ChatRepl.sessionAllowedPatterns
  confirmCommands,         \* Agent.confirmCommands
  callback,      \* Agent.onConfirmCommand: the REPL's or the default
  errorTurn,     \* the turn (value of streamCalls) whose stream delivered an
                 \* event of type error; 0 when none did
  adapter,       \* the provider adapter whose stream() is running
  adapterPc,     \* where that stream() is: "off", "reading", "returned", "raised"
  vendorCalls,   \* what the vendor sent: per started call its id, name and
                 \* argument fragments, in start order
  finishSeen,    \* the vendor signalled the end of the turn
  accumulatedToolCalls,  \* stream(): accumulatedToolCalls
  currentToolCall,       \* stream(): currentToolCall (<<>> for null, else
                         \* the one call)
  emitted,       \* the Stream Events stream() has yielded
  cfg,           \* the configuration: provider, model and the API keys
  currentProvider,  \* providers/index.js: currentProvider (<<>> for null,
                    \* else the one instance)
  built,         \* adapter instances constructed so far
  returned,      \* the last getProvider() call: what was asked, what the
                 \* cache held and what came back (<<>> before any call)
  servers,       \* mcp/index.js: servers, the connected MCP servers and the
                 \* tools each offers
  pluginTools,   \* the tool names the loaded plugins define
  executed,      \* the last executeTool() call: its name and what came of
                 \* it (<<>> before any call)
  typed,         \* the command text a model is composing
  checked,       \* the last checkCommandSafety() call: its command and its
                 \* result (<<>> before any call)
  agentConfig,   \* the agent section of the configuration
  generators,    \* ChatRepl: the chat() sequences started for the current
                 \* input, oldest first: "running", "suspended" at the
                 \* yield of done, or "returned"
  response,      \* sendMessage: the text received so far, by kind
  lastToolCallCount,  \* ChatRepl.lastToolCallCount
  autoContinueCount,  \* ChatRepl.autoContinueCount
  processing,     \* ChatRepl.processing
  fileCache,  \* FileCache.cache: per key <<>> (no entry) or the one entry,
  accessOrder,  \* FileCache.accessOrder,
  now,  \* Date.now(), in units of the clock,
  useOrder,  \* the keys in the order of their last get hit or set, as the
                 \* callers of the cache saw them
  files,  \* the disk: per path <<>> (no file) or its content,
  history,  \* UndoManager.history with the content of each backup file,
  backups,  \* calls of UndoManager.backup made so far,
  before,  \* per entry of history, the disk as it was before the
                 \* modification the entry was made for,
  prior,  \* per path <<>>, or what the path held before the last
                 \* successful write, edit, delete or rename of it,
  lastRead,  \* the result of the last file tool call if that was a full
                 \* read_file, else <<>>,
  undoResult,  \* the result of the last call if that was undo(), else <<>>
  messageId,  \* mcp/index.js: messageId,
  pendingRequests,  \* McpServer.pendingRequests: its keys,
  timers,  \* the ids whose setTimeout of request() is armed,
  promises,  \* per request id the promise request() returned: its state
                 \* and the id of the message (0 for the timeout) that settled it,
  settleCalls,  \* per request id, the calls of resolve or reject of its promise
  procs,  \* the McpServer objects made by connectServer, in order: the
                 \* name and the state of the child process of each,
  registered,  \* mcp/index.js: servers, per name the position in procs of
                 \* the registered McpServer, 0 when the name has no entry
  mcpPhase,  \* where an executeMcpTool invocation stands: idle, calling
                 \* (awaiting callTool), waiting (the pause before the
                 \* retry), returned or raised,
  mcpTool,  \* executeMcpTool: actualToolName,
  attempt,  \* executeMcpTool: attempt,
  lastError,  \* executeMcpTool: lastError.message,
  attemptLog,  \* the callTool calls of the invocation in order, each with
                 \* the message it failed with, "" when it gave a result,
  mcpResult  \* the object executeMcpTool returned, if it has returned

storeVars == <<messages, view, viewPath, nextId, appended>>

chatVars == <<pc, iterations, content, toolCalls, callIdx, events, streamCalls,
              toolRuns>>

shellVars == <<confirmed, started, sessionAllowedPatterns, confirmCommands,
               callback>>

errVars == <<errorTurn>>

adapterVars == <<adapter, adapterPc, vendorCalls, finishSeen,
                 accumulatedToolCalls, currentToolCall, emitted>>

cacheVars == <<cfg, currentProvider, built, returned>>

toolVars == <<servers, pluginTools, executed>>

safetyVars == <<typed, checked>>

configVars == <<agentConfig>>

replVars == <<generators, response, lastToolCallCount, autoContinueCount,
              processing>>

fileCacheVars == <<fileCache, accessOrder, now, useOrder>>

fileVars == <<files, history, backups, before, prior, lastRead, undoResult>>

requestVars == <<messageId, pendingRequests, timers, promises, settleCalls>>

connVars == <<procs, registered>>

retryVars == <<mcpPhase, mcpTool, attempt, lastError, attemptLog, mcpResult>>

\* the variables chat() and the store do not touch
extVars == <<errVars, adapterVars, cacheVars, toolVars, safetyVars, configVars,
             replVars,
             fileCacheVars,
             fileVars,
             requestVars,
             connVars,
             retryVars>>

vars == <<messages, view, viewPath, nextId, appended, pc, iterations, content,
          toolCalls, callIdx, events, streamCalls, toolRuns, confirmed, started,
          sessionAllowedPatterns, confirmCommands, callback,
          errorTurn, adapter, adapterPc, vendorCalls, finishSeen,
          accumulatedToolCalls, currentToolCall, emitted, cfg, currentProvider,
          built, returned, servers, pluginTools, executed, typed, checked,
          agentConfig, generators, response, lastToolCallCount,
          autoContinueCount, processing,
          fileCache, accessOrder, now, useOrder,
          files, history, backups, before, prior, lastRead, undoResult,
          messageId, pendingRequests, timers, promises, settleCalls,
          procs, registered,
          mcpPhase, mcpTool, attempt, lastError, attemptLog, mcpResult>>

(***************************************************************************)
(* Program constants                                                       *)
(***************************************************************************)
MAX_HISTORY_MESSAGES == 100
MAX_CONTEXT_TOKENS == 8000
KEEP_RECENT_MESSAGES == 6
TRUNCATE_TOOL_RESULTS == 500
MAX_TOOL_MESSAGES == 20
\* formatted.length <= 50 in getMessages
MAX_VIEW_MESSAGES == 50
\* '\n...[truncated]'.length
TRUNCATION_MARKER_LEN == 15
\* 1 / TOKENS_PER_CHAR (TOKENS_PER_CHAR = 0.25)
CHARS_PER_TOKEN == 4

(***************************************************************************)
(* Bounds of the model                                                     *)
(***************************************************************************)
\* Agent.maxIterations (options.maxIterations)
MaxIterations == 2
\* tool calls the provider emits over a session, at most
MaxToolCalls == 2
\* content chunks the provider streams during one chat(), at most
MaxDeltas == 1
\* rounds (one assistant message with tool calls and its results) a saved
\* session holds at most
MaxSavedRounds == 8
\* tool calls per round of a saved session
SavedBatch == 3
\* store operations a client performs after construction or load, at most
MaxAppends == 3

\* length of the generated system prompt, and of an over-long one
SystemLens == {3000, 40000}
\* lengths of user messages: a short one, one that alone exceeds the budget
UserLens == {20, 33000}
\* lengths of assistant text ('' and a sentence)
TextLens == {0, 40}
\* lengths of serialized tool results: short, and above the truncation ceiling
ToolLens == {20, 2000}
\* tool calls one assistant message carries (0: a plain text answer)
BatchSizes == {0, 1, 2}
\* length of the user messages sent through chat()
ChatUserLens == {20}
\* length of one streamed content chunk
DeltaLens == {10}
\* commands the model asks run_command to run
Commands == {"ls -la", "rm -rf /tmp/x"}

Null == -1
NoId == 0
NoName == ""

(***************************************************************************)
(* Array helpers                                                           *)
(***************************************************************************)
\* Array.prototype.slice(-n), n > 0
SliceLast(s, n) ==
  IF Len(s) <= n THEN s ELSE SubSeq(s, Len(s) - n + 1, Len(s))

IsSystem(m) == m.role = "system"

\* find((m) => m.role === 'system'): the first system message, as a sequence
\* of length at most one (empty when find returns undefined)
FindSystem(s) ==
  LET hits == SelectSeq(s, IsSystem)
  IN IF hits = <<>> THEN <<>> ELSE <<Head(hits)>>

(***************************************************************************)
(* ConversationManager                                                     *)
(***************************************************************************)
Msg(role, body, calls, toolCallId, name) ==
  [role |-> role, content |-> body, tool_calls |-> calls,
   tool_call_id |-> toolCallId, name |-> name]

\* addMessage without the trimming
addMessage_NoTrim(msgs, role, body, toolCallId, name) ==
  Append(msgs, Msg(role, body, <<>>, toolCallId, name))

\* addMessage whose trimming forgets the system message
addMessage_DropSystem(msgs, role, body, toolCallId, name) ==
  LET pushed == Append(msgs, Msg(role, body, <<>>, toolCallId, name))
  IN IF Len(pushed) > MAX_HISTORY_MESSAGES
     THEN SliceLast(pushed, MAX_HISTORY_MESSAGES)
     ELSE pushed

\* addMessage(role, content, metadata): push, then trim to MAX_HISTORY_MESSAGES
addMessage(msgs, role, body, toolCallId, name) ==
  LET pushed == Append(msgs, Msg(role, body, <<>>, toolCallId, name))
      systemMsg == FindSystem(pushed)
  IN IF Len(pushed) > MAX_HISTORY_MESSAGES
     THEN IF systemMsg # <<>>
          THEN systemMsg \o SliceLast(pushed, MAX_HISTORY_MESSAGES - 1)
          ELSE SliceLast(pushed, MAX_HISTORY_MESSAGES)
     ELSE pushed

\* addToolResult(toolCallId, toolName, result); len is the length of the
\* serialized result
addToolResult(msgs, toolCallId, toolName, len) ==
  addMessage(msgs, "tool", len, toolCallId, toolName)

\* addAssistantMessage(content, toolCalls); calls = <<>> stands for null and
\* for the empty array; text is the length of the streamed content
addAssistantMessage(msgs, text, calls) ==
  LET hasToolCalls == Len(calls) > 0
      stored == IF hasToolCalls
                THEN (IF text = 0 THEN Null ELSE text)
                ELSE text
  IN Append(msgs,
            Msg("assistant", stored,
                [i \in 1..Len(calls) |->
                   [id |-> calls[i].id, name |-> calls[i].name]],
                NoId, NoName))

\* setSystemMessage(content) on a store that has no system message yet or one
setSystemMessage(msgs, body) ==
  LET message == Msg("system", body, <<>>, NoId, NoName)
      existing == {i \in 1..Len(msgs) : msgs[i].role = "system"}
  IN IF existing # {}
     THEN LET first == CHOOSE i \in existing : \A j \in existing : i <= j
          IN [msgs EXCEPT ![first] = message]
     ELSE <<message>> \o msgs

\* clear()
clear(msgs) == FindSystem(msgs)

\* estimateTokens(content)
estimateTokens(body) ==
  IF body = Null \/ body = 0 THEN 0
  ELSE (body + CHARS_PER_TOKEN - 1) \div CHARS_PER_TOKEN

\* reduce((sum, msg) => sum + estimateTokens(msg.content), 0) over ms[1..n]
\* the estimates of messages lo..hi added up, by halves
RECURSIVE SumRange(_, _, _)
SumRange(ms, lo, hi) ==
  IF lo > hi THEN 0
  ELSE IF lo = hi THEN estimateTokens(ms[lo].content)
  ELSE LET mid == (lo + hi) \div 2
       IN SumRange(ms, lo, mid) + SumRange(ms, mid + 1, hi)

SumTokens(ms, n) == SumRange(ms, 1, n)

TotalTokens(ms) == SumTokens(ms, Len(ms))

\* getMessages, first pass: format all messages; idx is _idx
Formatted(msgs) ==
  [i \in 1..Len(msgs) |->
     [role |-> msgs[i].role,
      content |-> IF msgs[i].role = "assistant" /\ Len(msgs[i].tool_calls) > 0
                  THEN (IF msgs[i].content = 0 THEN Null ELSE msgs[i].content)
                  ELSE (IF msgs[i].content = Null THEN 0 ELSE msgs[i].content),
      tool_calls |-> msgs[i].tool_calls,
      tool_call_id |-> msgs[i].tool_call_id,
      name |-> msgs[i].name,
      idx |-> i]]

HasToolCalls(m) == m.role = "assistant" /\ Len(m.tool_calls) > 0
IsToolMsg(m) == m.role = "tool"

\* the ids of the tool calls of all assistant messages, none left out
RecentToolCallIds_AllTurns(formatted) ==
  LET assistantWithToolCalls == SelectSeq(formatted, HasToolCalls)
  IN UNION {{assistantWithToolCalls[i].tool_calls[j].id :
               j \in 1..Len(assistantWithToolCalls[i].tool_calls)} :
            i \in 1..Len(assistantWithToolCalls)}

\* ids of the tool calls of the last ceil(MAX_TOOL_MESSAGES / 3) assistant
\* messages that carry tool calls
RecentToolCallIds(formatted) ==
  LET assistantWithToolCalls == SelectSeq(formatted, HasToolCalls)
      recentAssistants ==
        SliceLast(assistantWithToolCalls, (MAX_TOOL_MESSAGES + 2) \div 3)
  IN UNION {{recentAssistants[i].tool_calls[j].id :
               j \in 1..Len(recentAssistants[i].tool_calls)} :
            i \in 1..Len(recentAssistants)}

\* the filter with an assistant rule that keeps every assistant message
KeepInPruned_AllAssistants(msg, recentToolCallIds) ==
  IF msg.role = "system" THEN TRUE
  ELSE IF msg.role = "user" THEN TRUE
  ELSE IF msg.role = "assistant" THEN TRUE
  ELSE IF msg.role = "tool" THEN msg.tool_call_id \in recentToolCallIds
  ELSE TRUE

\* the filter of the tool-pruning step
KeepInPruned(msg, recentToolCallIds) ==
  IF msg.role = "system" THEN TRUE
  ELSE IF msg.role = "user" THEN TRUE
  ELSE IF msg.role = "assistant" /\ Len(msg.tool_calls) = 0 THEN TRUE
  ELSE IF msg.role = "assistant"
       THEN \E j \in 1..Len(msg.tool_calls) :
              msg.tool_calls[j].id \in recentToolCallIds
  ELSE IF msg.role = "tool" THEN msg.tool_call_id \in recentToolCallIds
  ELSE TRUE

\* the tool-pruning step: applied when there are too many tool messages
PruneTools(formatted) ==
  LET toolMsgs == SelectSeq(formatted, IsToolMsg)
      recent == RecentToolCallIds(formatted)
      Keep(m) == KeepInPruned(m, recent)
  IN IF Len(toolMsgs) > MAX_TOOL_MESSAGES
     THEN SelectSeq(formatted, Keep)
     ELSE formatted

\* a truncation step that leaves every content as it is
TruncateTool_Whole(msg) == msg

\* the truncation step
TruncateTool(msg) ==
  IF msg.role = "tool" /\ msg.content # Null /\ msg.content > TRUNCATE_TOOL_RESULTS
  THEN [msg EXCEPT !.content = TRUNCATE_TOOL_RESULTS + TRUNCATION_MARKER_LEN]
  ELSE msg

Truncated(pruned) == [i \in 1..Len(pruned) |-> TruncateTool(pruned[i])]

\* a minimal view without the system message
Minimal_NoSystem(formatted, pruned) ==
  LET NotSystem(m) == m.role # "system"
  IN SliceLast(SelectSeq(pruned, NotSystem), KEEP_RECENT_MESSAGES)

\* the minimal view: system message + last KEEP_RECENT_MESSAGES others
Minimal(formatted, pruned) ==
  LET NotSystem(m) == m.role # "system"
  IN FindSystem(formatted)
       \o SliceLast(SelectSeq(pruned, NotSystem), KEEP_RECENT_MESSAGES)

\* ({ _idx, ...msg }) => msg
StripIdx(ms) ==
  [i \in 1..Len(ms) |->
     [role |-> ms[i].role, content |-> ms[i].content,
      tool_calls |-> ms[i].tool_calls, tool_call_id |-> ms[i].tool_call_id,
      name |-> ms[i].name]]

UnderLimit(formatted) ==
  TotalTokens(formatted) <= MAX_CONTEXT_TOKENS /\ Len(formatted) <= MAX_VIEW_MESSAGES

\* getMessages(): the path taken and the messages returned
getMessages(msgs) ==
  LET formatted == Formatted(msgs)
      pruned == Truncated(PruneTools(formatted))
  IN IF UnderLimit(formatted)
     THEN [path |-> "full", msgs |-> StripIdx(formatted)]
     ELSE IF TotalTokens(pruned) > MAX_CONTEXT_TOKENS
          THEN [path |-> "minimal", msgs |-> StripIdx(Minimal(formatted, pruned))]
          ELSE [path |-> "pruned", msgs |-> StripIdx(pruned)]

(***************************************************************************)
(* Derived facts about a message sequence                                  *)
(***************************************************************************)
\* ids of the tool calls carried by assistant messages
CallIds(ms) ==
  UNION {{ms[i].tool_calls[j].id : j \in 1..Len(ms[i].tool_calls)} :
         i \in {k \in 1..Len(ms) : ms[k].role = "assistant"}}

\* number of tool messages answering call id c
ResultCount(ms, c) ==
  Cardinality({i \in 1..Len(ms) : ms[i].role = "tool" /\ ms[i].tool_call_id = c})

ToolIds(ms) ==
  {ms[i].tool_call_id : i \in {k \in 1..Len(ms) : ms[k].role = "tool"}}

\* calls that have no result yet, in the order they were emitted
\* the calls of messages lo..hi whose id is not in answered, by halves
RECURSIVE PendingIn(_, _, _, _)
PendingIn(ms, answered, lo, hi) ==
  IF lo > hi THEN <<>>
  ELSE IF lo = hi
    THEN LET IsPending(tc) == tc.id \notin answered
         IN SelectSeq(ms[lo].tool_calls, IsPending)
  ELSE LET mid == (lo + hi) \div 2
       IN PendingIn(ms, answered, lo, mid) \o PendingIn(ms, answered, mid + 1, hi)

PendingCalls(ms, i) == PendingIn(ms, ToolIds(ms), i, Len(ms))

(***************************************************************************)
(* A client driving the store through its public operations               *)
(***************************************************************************)
\* the tool calls a provider emits in one turn: k calls with fresh ids
FreshCalls(first, k, name) ==
  [j \in 1..k |-> [id |-> first + j - 1, name |-> name]]

\* the messages of a session file saved after n completed rounds: the system
\* prompt, a user message, then per round one assistant message with
\* SavedBatch tool calls (no text, so null content) followed by their results
SavedSession(sysLen, n) ==
  [i \in 1..(2 + n * (SavedBatch + 1)) |->
     IF i = 1 THEN Msg("system", sysLen, <<>>, NoId, NoName)
     ELSE IF i = 2 THEN Msg("user", 20, <<>>, NoId, NoName)
     ELSE LET round == (i - 3) \div (SavedBatch + 1)
              pos == (i - 3) % (SavedBatch + 1)
          IN IF pos = 0
             THEN Msg("assistant", Null,
                      FreshCalls(round * SavedBatch + 1, SavedBatch, "read_file"),
                      NoId, NoName)
             ELSE Msg("tool", 2000, <<>>, round * SavedBatch + pos, "read_file")]

\* rounds of the longest session the store saves without having trimmed it
LongRounds == (MAX_HISTORY_MESSAGES - 2) \div (SavedBatch + 1)

\* no stream delivered an error event, no adapter is streaming, nothing is
\* configured and no adapter instance exists
NoError == errorTurn = 0

NoAdapter ==
  /\ adapter = ""
  /\ adapterPc = "off"
  /\ vendorCalls = <<>>
  /\ finishSeen = FALSE
  /\ accumulatedToolCalls = <<>>
  /\ currentToolCall = <<>>
  /\ emitted = <<>>

\* the vendors with an adapter class, and a name without one
Vendors == {"openai", "anthropic"}

KeyNames == Vendors \cup {"mistral"}

\* defaults.providers[v].defaultModel
DefaultModel(v) ==
  IF v = "openai" THEN "gpt-4o-mini" ELSE "claude-3-5-sonnet-20241022"

Models == {DefaultModel(v) : v \in Vendors}

NoKey == ""

ApiKeys == {"sk-1", "sk-2"}

\* the defaults of the configuration, no key set
NoProvider ==
  /\ cfg = [provider |-> "openai", model |-> DefaultModel("openai"),
            apiKeys |-> [v \in KeyNames |-> NoKey]]
  /\ currentProvider = <<>>
  /\ built = 0
  /\ returned = <<>>

\* the MCP servers that can be configured and the tools they may offer
ServerNames == {"fs", "git"}

ServerTools == {"read", "log"}

\* no server is connected, no plugin is loaded, no tool was executed
NoTools ==
  /\ servers = [s \in {} |-> {}]
  /\ pluginTools = {}
  /\ executed = <<>>

\* no command was composed or classified
NoCommand ==
  /\ typed = ""
  /\ checked = <<>>

\* defaults.agent
DefaultConfig == agentConfig = [autoApproveReadOnly |-> TRUE]

\* the REPL shows its first prompt
ReplIdle ==
  /\ generators = <<>>
  /\ response = "empty"
  /\ lastToolCallCount = 0
  /\ autoContinueCount = 0
  /\ processing = FALSE

\* the files the tools are asked about, and what they can hold
Paths == {"a.txt", "b.txt", "c.txt"}

Contents == {"v1", "v2"}

\* new FileCache(): nothing cached, and the clock at its start
NoFileCache ==
  /\ fileCache = [p \in Paths |-> <<>>]
  /\ accessOrder = <<>>
  /\ now = 0
  /\ useOrder = <<>>

\* the paths the file tools are called with
FilePaths == {"a.txt", "b.txt"}

\* the disk before the first tool call: a.txt exists, the other paths do not
InitialDisk == [p \in Paths |-> IF p = "a.txt" THEN <<"v1">> ELSE <<>>]

\* no file tool was called: the disk as found, an empty undo history
NoFileOps ==
  /\ files = InitialDisk
  /\ history = <<>>
  /\ backups = 0
  /\ before = <<>>
  /\ prior = [p \in Paths |-> <<>>]
  /\ lastRead = <<>>
  /\ undoResult = <<>>

\* requests one McpServer sends in a run
MaxRequests == 3

\* no request was sent
NoRequests ==
  /\ messageId = 0
  /\ pendingRequests = {}
  /\ timers = {}
  /\ promises = [id \in 1..MaxRequests |-> [state |-> "unsent", value |-> 0]]
  /\ settleCalls = [id \in 1..MaxRequests |-> 0]

\* server processes spawned in a run
MaxProcs == 3

\* no server process was spawned
NoProcesses ==
  /\ procs = <<>>
  /\ registered = [name \in {"fs", "git"} |-> 0]

\* executeMcpTool was not called
NoMcpCall ==
  /\ mcpPhase = "idle"
  /\ mcpTool = ""
  /\ attempt = 0
  /\ lastError = ""
  /\ attemptLog = <<>>
  /\ mcpResult = <<>>

\* no chat() invocation has been made
NoChat ==
  /\ pc = "idle"
  /\ iterations = 0
  /\ content = 0
  /\ toolCalls = <<>>
  /\ callIdx = 0
  /\ events = <<>>
  /\ streamCalls = 0
  /\ toolRuns = 0

StoreInit ==
  /\ \E len \in SystemLens : messages = setSystemMessage(<<>>, len)
  /\ view = <<>>
  /\ viewPath = "none"
  /\ nextId = 1
  /\ appended = 0
  /\ NoChat
  /\ confirmed = "unset"
  /\ started = {}
  /\ sessionAllowedPatterns = {}
  /\ confirmCommands = TRUE
  /\ callback = "repl"
  /\ NoError /\ NoAdapter /\ NoProvider /\ NoTools /\ NoCommand /\ ReplIdle
    /\ NoFileCache
    /\ NoFileOps
    /\ NoRequests
    /\ NoProcesses
    /\ NoMcpCall
  /\ DefaultConfig

\* load(filepath): the stored log is replaced by the file's messages
StoreLoad ==
  /\ appended = 0 /\ Len(messages) = 1
  /\ \E n \in (1..MaxSavedRounds) \cup {LongRounds} :
       /\ messages' = SavedSession(messages[1].content, n)
       /\ nextId' = n * SavedBatch + 1
  /\ view' = <<>> /\ viewPath' = "none"
  /\ UNCHANGED <<appended, chatVars, shellVars>>
  /\ UNCHANGED extVars

StoreAddUser ==
  /\ appended < MaxAppends
  /\ PendingCalls(messages, 1) = <<>>
  /\ \E len \in UserLens :
       messages' = addMessage(messages, "user", len, NoId, NoName)
  /\ view' = <<>> /\ viewPath' = "none"
  /\ appended' = appended + 1
  /\ UNCHANGED <<nextId, chatVars, shellVars>>
  /\ UNCHANGED extVars

StoreAddAssistant ==
  /\ appended < MaxAppends
  /\ PendingCalls(messages, 1) = <<>>
  /\ \E len \in TextLens, k \in BatchSizes :
       /\ messages' = addAssistantMessage(messages, len,
                                          FreshCalls(nextId, k, "read_file"))
       /\ nextId' = nextId + k
  /\ view' = <<>> /\ viewPath' = "none"
  /\ appended' = appended + 1
  /\ UNCHANGED <<chatVars, shellVars>>
  /\ UNCHANGED extVars

StoreAddToolResult ==
  /\ appended < MaxAppends
  /\ PendingCalls(messages, 1) # <<>>
  /\ LET tc == Head(PendingCalls(messages, 1))
     IN \E len \in ToolLens :
          messages' = addToolResult(messages, tc.id, tc.name, len)
  /\ view' = <<>> /\ viewPath' = "none"
  /\ appended' = appended + 1
  /\ UNCHANGED <<nextId, chatVars, shellVars>>
  /\ UNCHANGED extVars

\* a getMessages whose truncation writes to the stored messages
StoreGetMessages_InPlace ==
  /\ viewPath = "none"
  /\ view' = getMessages(messages).msgs
  /\ viewPath' = getMessages(messages).path
  /\ messages' = IF UnderLimit(Formatted(messages)) THEN messages
                 ELSE [i \in 1..Len(messages) |-> TruncateTool(messages[i])]
  /\ UNCHANGED <<nextId, appended, chatVars, shellVars>>
  /\ UNCHANGED extVars

\* getMessages(): the view is computed, the stored log is left alone
StoreGetMessages ==
  /\ viewPath = "none"
  /\ view' = getMessages(messages).msgs
  /\ viewPath' = getMessages(messages).path
  /\ UNCHANGED <<messages, nextId, appended, chatVars, shellVars>>
  /\ UNCHANGED extVars

StoreNext ==
  \/ StoreLoad
  \/ StoreAddUser
  \/ StoreAddAssistant
  \/ StoreAddToolResult
  \/ StoreGetMessages

StoreSpec == StoreInit /\ [][StoreNext]_vars

(***************************************************************************)
(* run_command: checkCommandSafety and the confirmation gate of execute    *)
(* (src/src/tools/shell.js).  Commands are strings in lower case.          *)
(***************************************************************************)
CharAt(str, i) == SubSeq(str, i, i)

WordChars ==
  {"a", "b", "c", "d", "e", "f", "g", "h", "i", "j", "k", "l", "m", "n", "o",
   "p", "q", "r", "s", "t", "u", "v", "w", "x", "y", "z", "0", "1", "2", "3",
   "4", "5", "6", "7", "8", "9", "_"}

\* \w at position i
IsWordAt(str, i) == i >= 1 /\ i <= Len(str) /\ CharAt(str, i) \in WordChars

\* \s at position i
IsSpaceAt(str, i) == i >= 1 /\ i <= Len(str) /\ CharAt(str, i) = " "

\* the literal lit at position i
LitAt(str, i, lit) ==
  i >= 1 /\ i + Len(lit) - 1 <= Len(str) /\ SubSeq(str, i, i + Len(lit) - 1) = lit

\* \b between positions i - 1 and i
BoundaryAt(str, i) == IsWordAt(str, i - 1) # IsWordAt(str, i)

\* /\bword\b/
HasWord(str, word) ==
  \E i \in 1..Len(str) :
    LitAt(str, i, word) /\ BoundaryAt(str, i) /\ BoundaryAt(str, i + Len(word))

\* /\bword\s+(alt1|alt2|...)/ : word, white space, then one of alts
HasWordThen(str, word, alts) ==
  \E i \in 1..Len(str), j \in 1..(Len(str) + 1) :
    /\ LitAt(str, i, word) /\ BoundaryAt(str, i)
    /\ j > i + Len(word)
    /\ \A k \in (i + Len(word))..(j - 1) : IsSpaceAt(str, k)
    /\ \E alt \in alts : LitAt(str, j, alt)

\* /\bword\b.*rest/
HasWordBefore(str, word, rest) ==
  \E i \in 1..Len(str), j \in 1..Len(str) :
    /\ LitAt(str, i, word) /\ BoundaryAt(str, i) /\ BoundaryAt(str, i + Len(word))
    /\ j >= i + Len(word)
    /\ LitAt(str, j, rest)

\* /\bword\b.*\|\s*(ba)?sh/
PipesToShell(str, word) ==
  \E i \in 1..Len(str), j \in 1..Len(str), k \in 1..(Len(str) + 1) :
    /\ LitAt(str, i, word) /\ BoundaryAt(str, i) /\ BoundaryAt(str, i + Len(word))
    /\ j >= i + Len(word) /\ LitAt(str, j, "|")
    /\ k > j /\ \A l \in (j + 1)..(k - 1) : IsSpaceAt(str, l)
    /\ (LitAt(str, k, "sh") \/ LitAt(str, k, "bash"))

\* />\s*\/dev\//
RedirectsToDev(str) ==
  \E i \in 1..Len(str), j \in 1..(Len(str) + 1) :
    /\ LitAt(str, i, ">")
    /\ j > i /\ \A l \in (i + 1)..(j - 1) : IsSpaceAt(str, l)
    /\ LitAt(str, j, "/dev/")

\* some pattern of DANGEROUS_PATTERNS matches
MatchesDangerous(command) ==
  \/ HasWordThen(command, "rm", {"-r", "--recursive"})
  \/ HasWord(command, "sudo")
  \/ HasWord(command, "su")
  \/ HasWordBefore(command, "chmod", "777")
  \/ HasWord(command, "chown")
  \/ HasWord(command, "mkfs")
  \/ \E i \in 1..Len(command), j \in 1..(Len(command) + 1) :
       /\ LitAt(command, i, "dd") /\ BoundaryAt(command, i)
       /\ j > i + 2 /\ \A l \in (i + 2)..(j - 1) : IsSpaceAt(command, l)
       /\ LitAt(command, j, "if=")
  \/ RedirectsToDev(command)
  \/ PipesToShell(command, "curl")
  \/ PipesToShell(command, "wget")
  \/ \E verb \in {"install", "i"} :
       \E i \in 1..Len(command), j, k \in 1..(Len(command) + 1) :
         /\ LitAt(command, i, "npm") /\ BoundaryAt(command, i)
         /\ j > i + 3 /\ \A l \in (i + 3)..(j - 1) : IsSpaceAt(command, l)
         /\ LitAt(command, j, verb)
         /\ k > j + Len(verb) /\ \A l \in (j + Len(verb))..(k - 1) : IsSpaceAt(command, l)
         /\ LitAt(command, k, "-g")
  \/ \E i \in 1..Len(command), j \in 1..(Len(command) + 1) :
       /\ LitAt(command, i, "pip") /\ BoundaryAt(command, i)
       /\ j > i + 3 /\ \A l \in (i + 3)..(j - 1) : IsSpaceAt(command, l)
       /\ LitAt(command, j, "install") /\ BoundaryAt(command, j + 7)
  \/ HasWord(command, "apt")
  \/ HasWordThen(command, "pkg", {"install", "remove"})

SAFE_COMMANDS ==
  {"ls", "cat", "head", "tail", "pwd", "echo", "which", "whoami", "date", "cal",
   "env", "printenv", "uname", "hostname", "df", "du", "free", "uptime", "wc",
   "sort", "uniq", "grep", "find", "tree", "file", "stat", "git status",
   "git log", "git diff", "git branch", "git remote", "node --version",
   "npm --version", "npm list", "python --version", "pip list"}

\* command.trim(), for commands padded with blanks
RECURSIVE TrimLeft(_)
TrimLeft(str) ==
  IF Len(str) > 0 /\ CharAt(str, 1) = " " THEN TrimLeft(SubSeq(str, 2, Len(str)))
  ELSE str

\* checkCommandSafety(command): safe, and otherwise requiresConfirmation
checkCommandSafety(command) ==
  IF MatchesDangerous(command)
  THEN [safe |-> FALSE, reason |-> "Command matches a dangerous pattern",
        requiresConfirmation |-> TRUE]
  ELSE IF \E safe \in SAFE_COMMANDS : LitAt(TrimLeft(command), 1, safe)
       THEN [safe |-> TRUE, reason |-> "", requiresConfirmation |-> FALSE]
       ELSE [safe |-> FALSE, reason |-> "Unknown command - requires confirmation",
             requiresConfirmation |-> TRUE]

\* execute(): what the gate in front of runCommand decides
\*   "ask": await confirmCallback(command, reason)
\*   "refuse": return 'Command requires confirmation but no callback provided'
\*   "run": fall through to runCommand
ShellGate(command, hasCallback, autoApproveReadOnly) ==
  LET safety == checkCommandSafety(command)
  IN IF ~safety.safe /\ safety.requiresConfirmation
     THEN IF hasCallback THEN "ask"
          ELSE IF ~autoApproveReadOnly THEN "refuse"
          ELSE "run"
     ELSE "run"

\* cmd.split(' ')[0].split('/').pop()
RECURSIVE FirstBlank(_, _)
FirstBlank(str, i) ==
  IF i > Len(str) THEN i
  ELSE IF CharAt(str, i) = " " THEN i ELSE FirstBlank(str, i + 1)

RECURSIVE AfterLastSlash(_, _)
AfterLastSlash(str, i) ==
  IF i = 0 THEN str
  ELSE IF CharAt(str, i) = "/" THEN SubSeq(str, i + 1, Len(str))
  ELSE AfterLastSlash(str, i - 1)

CmdPattern(cmd) ==
  LET first == SubSeq(cmd, 1, FirstBlank(cmd, 1) - 1)
  IN AfterLastSlash(first, Len(first))

\* tool results: success is "true", "false" or "absent"; len is the length of
\* JSON.stringify(result)
Rejected(command) ==
  [success |-> "false", error |-> "Command was rejected by user",
   len |-> 69 + Len(command)]

Refused(command) ==
  [success |-> "false",
   error |-> "Command requires confirmation but no callback provided",
   len |-> 142 + Len(command)]

\* what a tool that ran returns: a result object, or an error object
Succeeded == [success |-> "true", error |-> "", len |-> 150]
\* execute() of run_command when runCommand throws
Failed == [success |-> "false", error |-> "tool failed", len |-> 90]
\* catch (error) { errorResult = { error: error.message } }
Thrown == [success |-> "absent", error |-> "tool threw", len |-> 22]

(***************************************************************************)
(* Agent.chat (src/unnamed/part_011): one chat() invocation on the         *)
(* conversation that createAgent() initialized.                            *)
(***************************************************************************)
\* a name that is present but not a string
NonStringName == "<non-string>"

\* tc && tc.name && typeof tc.name === 'string'
IsValidCall(tc) == tc.name # NoName /\ tc.name # NonStringName

validToolCalls == SelectSeq(toolCalls, IsValidCall)

Event(type, tool, command, result) ==
  [type |-> type, tool |-> tool, command |-> command, result |-> result]

NoResult == [success |-> "", error |-> "", len |-> 0]

\* the tool calls a provider may emit for one call slot
CallShapes ==
  {[name |-> "run_command", command |-> c] : c \in Commands}
    \cup {[name |-> n, command |-> ""] : n \in {"read_file", NoName, NonStringName}}

AgentInit ==
  /\ messages = setSystemMessage(<<>>, 3000)
  /\ view = <<>>
  /\ viewPath = "none"
  /\ nextId = 1
  /\ appended = 0
  /\ NoChat
  /\ confirmed = "unset"
  /\ started = {}
  /\ sessionAllowedPatterns = {}
  /\ confirmCommands \in BOOLEAN
  /\ callback \in {"repl", "default"}
  /\ (~confirmCommands => callback = "default")
  /\ NoError /\ NoAdapter /\ NoProvider /\ NoTools /\ NoCommand /\ ReplIdle
    /\ NoFileCache
    /\ NoFileOps
    /\ NoRequests
    /\ NoProcesses
    /\ NoMcpCall

\* the agent section of the configuration holds the defaults
Init == AgentInit /\ DefaultConfig

\* the user set agent.autoApproveReadOnly
ConfiguredInit == AgentInit /\ agentConfig \in [autoApproveReadOnly : BOOLEAN]

\* chat(message) up to the loop: the user message is appended
ChatStart ==
  /\ pc = "idle"
  /\ \E len \in ChatUserLens :
       messages' = addMessage(messages, "user", len, NoId, NoName)
  /\ pc' = "loop"
  /\ iterations' = 0
  /\ content' = 0
  /\ toolCalls' = <<>>
  /\ callIdx' = 0
  /\ events' = <<>>
  /\ streamCalls' = 0
  /\ toolRuns' = 0
  /\ view' = <<>> /\ viewPath' = "none"
  /\ UNCHANGED <<nextId, appended, shellVars>>
  /\ UNCHANGED extVars

\* the loop condition, off by one
LoopContinues_OffByOne == iterations <= MaxIterations

\* the loop condition
LoopContinues == iterations < MaxIterations

\* while (iterations < maxIterations): a turn starts, the view is handed to
\* provider.stream
ChatTurn ==
  /\ pc = "loop"
  /\ LoopContinues
  /\ iterations' = iterations + 1
  /\ \E got \in {getMessages(messages)} :
       /\ view' = got.msgs
       /\ viewPath' = got.path
  /\ content' = 0
  /\ toolCalls' = <<>>
  /\ streamCalls' = streamCalls + 1
  /\ pc' = "stream"
  /\ UNCHANGED <<messages, nextId, appended, callIdx, events, toolRuns,
                 shellVars>>
  /\ UNCHANGED extVars

\* the loop ends: yield max_iterations
ChatMaxIterations ==
  /\ pc = "loop"
  /\ ~LoopContinues
  /\ events' = Append(events, Event("max_iterations", "", "", NoResult))
  /\ pc' = "finished"
  /\ UNCHANGED <<storeVars, iterations, content, toolCalls, callIdx, streamCalls,
                 toolRuns, shellVars>>
  /\ UNCHANGED extVars

\* chunk.type === 'content'
StreamContent ==
  /\ pc = "stream"
  /\ errorTurn # streamCalls
  /\ toolCalls = <<>>
  /\ Len(SelectSeq(events, LAMBDA e : e.type = "content")) < MaxDeltas
  /\ \E len \in DeltaLens : content' = content + len
  /\ events' = Append(events, Event("content", "", "", NoResult))
  /\ UNCHANGED <<storeVars, pc, iterations, toolCalls, callIdx, streamCalls,
                 toolRuns, shellVars>>
  /\ UNCHANGED extVars

\* chunk.type === 'tool_calls'
StreamToolCalls ==
  /\ pc = "stream"
  /\ errorTurn # streamCalls
  /\ toolCalls = <<>>
  /\ \E k \in 1..(MaxToolCalls - (nextId - 1)) :
       \E shapes \in [1..k -> CallShapes] :
         toolCalls' = [j \in 1..k |->
                         [id |-> nextId + j - 1, name |-> shapes[j].name,
                          command |-> shapes[j].command]]
  /\ nextId' = nextId + Len(toolCalls')
  /\ UNCHANGED <<messages, view, viewPath, appended, pc, iterations, content,
                 callIdx, events, streamCalls, toolRuns, shellVars>>
  /\ UNCHANGED extVars

\* the code after the stream without the check of validToolCalls.length
AfterStream_NoValidCheck ==
  IF Len(toolCalls) = 0 THEN "done"
  ELSE "tool_call"

\* the events of the code after the stream: done, or the first tool_call
AfterStream ==
  IF Len(toolCalls) = 0 THEN "done"
  ELSE IF Len(validToolCalls) = 0 THEN "done"
  ELSE "tool_call"

\* the stream ends: the assistant message is stored, then either done or the
\* first tool_call is yielded
StreamEnd ==
  /\ pc = "stream"
  /\ messages' = addAssistantMessage(messages, content, toolCalls)
  /\ IF AfterStream = "done"
     THEN /\ events' = Append(events, Event("done", "", "", NoResult))
          /\ pc' = "finished"
          /\ callIdx' = 0
     ELSE IF Len(validToolCalls) = 0
     THEN \* for (const toolCall of validToolCalls) over no call
          /\ pc' = "loop"
          /\ callIdx' = 0
          /\ UNCHANGED events
     ELSE /\ events' = Append(events,
                              Event("tool_call", validToolCalls[1].name,
                                    validToolCalls[1].command, NoResult))
          /\ pc' = "called"
          /\ callIdx' = 1
  /\ UNCHANGED <<view, viewPath, nextId, appended, iterations, content, toolCalls,
                 streamCalls, toolRuns, shellVars>>
  /\ UNCHANGED extVars

\* a catch that yields error and goes on with the loop instead of returning
StreamThrow_NoReturn ==
  /\ pc = "stream"
  /\ events' = Append(events, Event("error", "", "", NoResult))
  /\ pc' = "loop"
  /\ UNCHANGED <<storeVars, iterations, content, toolCalls, callIdx, streamCalls,
                 toolRuns, shellVars>>
  /\ UNCHANGED extVars

\* provider.stream raises: catch, yield error, return
StreamThrow ==
  /\ pc = "stream"
  /\ events' = Append(events, Event("error", "", "", NoResult))
  /\ pc' = "finished"
  /\ UNCHANGED <<storeVars, iterations, content, toolCalls, callIdx, streamCalls,
                 toolRuns, shellVars>>
  /\ UNCHANGED extVars

\* the result of the current call is announced without being stored
Announce_EventOnly(tc, result) ==
  /\ messages' = messages
  /\ events' = Append(events, Event("tool_result", tc.name, tc.command, result))
  /\ pc' = "resulted"

\* the result of the current call is stored and announced
Announce(tc, result) ==
  /\ messages' = addToolResult(messages, tc.id, tc.name, result.len)
  /\ events' = Append(events, Event("tool_result", tc.name, tc.command, result))
  /\ pc' = "resulted"

\* runCommand(command): the shell is spawned
Spawn(command, approved) ==
  started' = started \cup {[command |-> command, confirmed |-> approved]}

\* executeTool is called for the current call; run_command goes through the
\* gate of execute, up to the first point where it has to wait
ToolBegin ==
  /\ pc = "called"
  /\ toolRuns' = toolRuns + 1
  /\ \E tc \in {validToolCalls[callIdx]} :
     \E gate \in {ShellGate(tc.command, confirmCommands, TRUE)} :
        IF tc.name # "run_command"
        THEN /\ pc' = "running"
             /\ confirmed' = "unset"
             /\ UNCHANGED <<messages, events, started>>
        ELSE IF gate = "refuse"
        THEN /\ Announce(tc, Refused(tc.command))
             /\ confirmed' = "unset"
             /\ UNCHANGED started
        ELSE IF gate = "run"
        THEN /\ Spawn(tc.command, FALSE)
             /\ pc' = "running"
             /\ confirmed' = "unset"
             /\ UNCHANGED <<messages, events>>
        ELSE IF callback = "default"
                  \/ CmdPattern(tc.command) \in sessionAllowedPatterns
        THEN \* () => Promise.resolve(true), or 'Auto-allowed'
             /\ Spawn(tc.command, TRUE)
             /\ pc' = "running"
             /\ confirmed' = "true"
             /\ UNCHANGED <<messages, events>>
        ELSE /\ pc' = "confirm"
             /\ confirmed' = "unset"
             /\ UNCHANGED <<messages, events, started>>
  /\ UNCHANGED <<view, viewPath, nextId, appended, iterations, content, toolCalls,
                 callIdx, streamCalls, sessionAllowedPatterns, confirmCommands,
                 callback>>
  /\ UNCHANGED extVars

\* execute() whose rejected branch does not return before runCommand
ConfirmAnswer_NoReturn ==
  /\ pc = "confirm"
  /\ LET tc == validToolCalls[callIdx]
     IN \E choice \in {"y", "n", "a"} :
          IF choice = "a"
          THEN /\ sessionAllowedPatterns' =
                    sessionAllowedPatterns \cup {CmdPattern(tc.command)}
               /\ confirmed' = "true"
               /\ Spawn(tc.command, TRUE)
               /\ pc' = "running"
               /\ UNCHANGED <<messages, events>>
          ELSE IF choice = "y"
          THEN /\ confirmed' = "true"
               /\ Spawn(tc.command, TRUE)
               /\ pc' = "running"
               /\ UNCHANGED <<messages, events, sessionAllowedPatterns>>
          ELSE /\ confirmed' = "false"
               /\ Spawn(tc.command, FALSE)
               /\ pc' = "running"
               /\ UNCHANGED <<messages, events, sessionAllowedPatterns>>
  /\ UNCHANGED <<view, viewPath, nextId, appended, iterations, content, toolCalls,
                 callIdx, streamCalls, toolRuns, confirmCommands, callback>>
  /\ UNCHANGED extVars

\* ChatRepl.confirmCommand: the user answers the prompt
ConfirmAnswer ==
  /\ pc = "confirm"
  /\ LET tc == validToolCalls[callIdx]
     IN \E choice \in {"y", "n", "a"} :
          IF choice = "a"
          THEN /\ sessionAllowedPatterns' =
                    sessionAllowedPatterns \cup {CmdPattern(tc.command)}
               /\ confirmed' = "true"
               /\ Spawn(tc.command, TRUE)
               /\ pc' = "running"
               /\ UNCHANGED <<messages, events>>
          ELSE IF choice = "y"
          THEN /\ confirmed' = "true"
               /\ Spawn(tc.command, TRUE)
               /\ pc' = "running"
               /\ UNCHANGED <<messages, events, sessionAllowedPatterns>>
          ELSE /\ confirmed' = "false"
               /\ Announce(tc, Rejected(tc.command))
               /\ UNCHANGED <<started, sessionAllowedPatterns>>
  /\ UNCHANGED <<view, viewPath, nextId, appended, iterations, content, toolCalls,
                 callIdx, streamCalls, toolRuns, confirmCommands, callback>>
  /\ UNCHANGED extVars

\* a chat() without the catch around executeTool: the exception of a tool
\* ends the chat with an error event
ToolFinish_NoCatch ==
  /\ pc = "running"
  /\ LET tc == validToolCalls[callIdx]
     IN \E result \in {Succeeded, Failed, Thrown} :
          /\ (tc.name = "run_command" => result # Thrown)
          /\ (tc.name # "run_command" => result # Failed)
          /\ IF result = Thrown
             THEN /\ events' = Append(events, Event("error", "", "", NoResult))
                  /\ pc' = "finished"
                  /\ UNCHANGED messages
             ELSE Announce(tc, result)
  /\ UNCHANGED <<view, viewPath, nextId, appended, iterations, content, toolCalls,
                 callIdx, streamCalls, toolRuns, shellVars>>
  /\ UNCHANGED extVars

\* the tool completes: its result, or what the catch makes of its exception
ToolFinish ==
  /\ pc = "running"
  /\ LET tc == validToolCalls[callIdx]
     IN \E result \in {Succeeded, Failed, Thrown} :
          \* execute() of run_command catches what runCommand throws
          /\ (tc.name = "run_command" => result # Thrown)
          /\ (tc.name # "run_command" => result # Failed)
          /\ Announce(tc, result)
  /\ UNCHANGED <<view, viewPath, nextId, appended, iterations, content, toolCalls,
                 callIdx, streamCalls, toolRuns, shellVars>>
  /\ UNCHANGED extVars

\* a loop over the calls that ends after the first of them
ChatResume_Break ==
  /\ pc \in {"resulted", "caught"}
  /\ pc' = "loop"
  /\ UNCHANGED <<callIdx, events>>
  /\ UNCHANGED <<storeVars, iterations, content, toolCalls, streamCalls, toolRuns,
                 shellVars>>
  /\ UNCHANGED extVars

\* after tool_result: the next call is announced, or the loop goes round
ChatResume ==
  /\ pc \in {"resulted", "caught"}
  /\ IF callIdx < Len(validToolCalls)
     THEN /\ callIdx' = callIdx + 1
          /\ events' = Append(events,
                              Event("tool_call", validToolCalls[callIdx + 1].name,
                                    validToolCalls[callIdx + 1].command, NoResult))
          /\ pc' = "called"
     ELSE /\ pc' = "loop"
          /\ UNCHANGED <<callIdx, events>>
  /\ UNCHANGED <<storeVars, iterations, content, toolCalls, streamCalls, toolRuns,
                 shellVars>>
  /\ UNCHANGED extVars

Next ==
  \/ ChatStart
  \/ ChatTurn
  \/ ChatMaxIterations
  \/ StreamContent
  \/ StreamToolCalls
  \/ StreamEnd
  \/ StreamThrow
  \/ ToolBegin
  \/ ConfirmAnswer
  \/ ToolFinish
  \/ ChatResume

Spec == Init /\ [][Next]_vars

\* chat() of an Agent whose configuration the user edited
ConfiguredSpec == ConfiguredInit /\ [][Next]_vars

\* every step of chat() is eventually taken: the stream, each tool and each
\* confirmation eventually return
FairSpec == Spec /\ WF_vars(Next)

(***************************************************************************)
(* chat() with callbacks that may throw: onToolCall, onToolResult and the  *)
(* confirmation callback are supplied by the caller of createAgent         *)
(***************************************************************************)
\* this.onToolCall(toolCall) throws: it is called outside the try, so the
\* exception leaves the generator
OnToolCallThrows ==
  /\ pc = "called"
  /\ pc' = "thrown"
  /\ UNCHANGED <<storeVars, iterations, content, toolCalls, callIdx, events,
                 streamCalls, toolRuns, shellVars>>
  /\ UNCHANGED extVars

\* this.onToolResult(name, result) throws: it is called inside the try,
\* after the result was stored and yielded, so the catch stores and yields
\* an error result for the same call
OnToolResultThrows ==
  /\ pc = "resulted"
  /\ events[Len(events)].result # Thrown
  /\ LET tc == validToolCalls[callIdx]
     IN /\ messages' = addToolResult(messages, tc.id, tc.name, Thrown.len)
        /\ events' = Append(events, Event("tool_result", tc.name, tc.command, Thrown))
  /\ pc' = "caught"
  /\ UNCHANGED <<view, viewPath, nextId, appended, iterations, content, toolCalls,
                 callIdx, streamCalls, toolRuns, shellVars>>
  /\ UNCHANGED extVars

\* confirmCallback(command, reason) rejects: execute rejects, the catch of
\* chat() stores and yields the error result
ConfirmThrows ==
  /\ pc = "confirm"
  /\ Announce(validToolCalls[callIdx], Thrown)
  /\ UNCHANGED <<view, viewPath, nextId, appended, iterations, content, toolCalls,
                 callIdx, streamCalls, toolRuns, shellVars>>
  /\ UNCHANGED extVars

HookNext ==
  \/ Next
  \/ OnToolCallThrows
  \/ OnToolResultThrows
  \/ ConfirmThrows

HookSpec == Init /\ [][HookNext]_vars

(***************************************************************************)
(* The provider adapters: stream() decoding the vendor's chunks            *)
(***************************************************************************)
MaxVendorCalls == 2
MaxVendorContent == 1
\* the argument text of a call arrives in this many fragments
FragsPerCall == 2

\* the adapters sharing the OpenAI chunk format
OpenAIStyle == {"openai", "zai", "openrouter"}

Adapters == OpenAIStyle \cup {"anthropic", "google"}

FinishReasons == {"stop", "tool_calls", "length"}

\* the tool names the vendor sends, by call index
VendorNames == <<"read_file", "run_command", "write_file">>

\* fragment number part of the argument text of call number call
Fragment(call, part) == [call |-> call, part |-> part]

\* the whole argument text of a call
WholeArguments(call) == [k \in 1..FragsPerCall |-> Fragment(call, k)]

\* JSON.parse(text) returns: the text is one opening fragment followed by the
\* matching closing fragments, whichever calls they came from
JSONParses(text) ==
  /\ Len(text) = FragsPerCall
  /\ \A k \in 1..FragsPerCall : text[k].part = k

\* the object {}
EmptyObject == <<Fragment(0, 0)>>

\* JSON.parse inside try/catch with the {} fallback
ParseOrEmpty(text) == IF JSONParses(text) THEN text ELSE EmptyObject

StreamEvent(type, calls) == [type |-> type, toolCalls |-> calls]

\* accumulatedToolCalls.map(tc => ({id, name, arguments: parse(tc.arguments)}))
ParsedCalls(calls) ==
  [k \in 1..Len(calls) |->
     [id |-> calls[k].id, name |-> calls[k].name,
      arguments |-> ParseOrEmpty(calls[k].arguments)]]

\* accumulatedToolCalls after `if (currentToolCall) push(currentToolCall)`
WithCurrent == accumulatedToolCalls \o currentToolCall

\* const stream = await create(params); accumulatedToolCalls = []; ...
AdapterStart ==
  /\ adapterPc = "off"
  /\ \E a \in Adapters : adapter' = a
  /\ adapterPc' = "reading"
  /\ UNCHANGED <<vendorCalls, finishSeen, accumulatedToolCalls,
                 currentToolCall, emitted>>
  /\ UNCHANGED <<storeVars, chatVars, shellVars, errVars, cacheVars, toolVars,
                 safetyVars, configVars, replVars, fileCacheVars, fileVars, requestVars, connVars, retryVars>>

\* a chunk carrying text: if (delta?.content) yield content
VendorContent ==
  /\ adapterPc = "reading"
  /\ ~finishSeen
  /\ Len(SelectSeq(emitted, LAMBDA e : e.type = "content")) < MaxVendorContent
  /\ emitted' = Append(emitted, StreamEvent("content", <<>>))
  /\ UNCHANGED <<adapter, adapterPc, vendorCalls, finishSeen,
                 accumulatedToolCalls, currentToolCall>>
  /\ UNCHANGED <<storeVars, chatVars, shellVars, errVars, cacheVars, toolVars,
                 safetyVars, configVars, replVars, fileCacheVars, fileVars, requestVars, connVars, retryVars>>

\* the vendor starts call number Len(vendorCalls) + 1: a delta with an id
\* (OpenAI style), a content_block_start of type tool_use (Anthropic), a
\* functionCall part that carries the whole call (Google)
VendorStartCall ==
  /\ adapterPc = "reading"
  /\ ~finishSeen
  /\ Len(vendorCalls) < MaxVendorCalls
  /\ adapter = "anthropic" => currentToolCall = <<>>
  /\ LET i == Len(vendorCalls) + 1
         started_ == [id |-> i, name |-> VendorNames[i], arguments |-> <<>>]
     IN /\ vendorCalls' = Append(vendorCalls,
             [id |-> i, name |-> VendorNames[i],
              frags |-> IF adapter = "google" THEN WholeArguments(i) ELSE <<>>])
        /\ IF adapter \in OpenAIStyle
             THEN /\ accumulatedToolCalls' = WithCurrent
                  /\ currentToolCall' = <<started_>>
             ELSE IF adapter = "anthropic"
               THEN /\ currentToolCall' = <<started_>>
                    /\ UNCHANGED accumulatedToolCalls
               ELSE /\ accumulatedToolCalls' = Append(accumulatedToolCalls,
                         [started_ EXCEPT !.arguments = WholeArguments(i)])
                    /\ UNCHANGED currentToolCall
  /\ UNCHANGED <<adapter, adapterPc, finishSeen, emitted>>
  /\ UNCHANGED <<storeVars, chatVars, shellVars, errVars, cacheVars, toolVars,
                 safetyVars, configVars, replVars, fileCacheVars, fileVars, requestVars, connVars, retryVars>>

\* the vendor sends the next argument fragment of call number i: a delta
\* without id keyed by index i (OpenAI style), an input_json_delta of the
\* open block (Anthropic).  The adapters do not read the index.
VendorFragment ==
  /\ adapterPc = "reading"
  /\ ~finishSeen
  /\ adapter # "google"
  /\ \E i \in 1..Len(vendorCalls) :
       /\ Len(vendorCalls[i].frags) < FragsPerCall
       /\ adapter = "anthropic" => (i = Len(vendorCalls) /\ currentToolCall # <<>>)
       /\ LET f == Fragment(i, Len(vendorCalls[i].frags) + 1)
          IN /\ vendorCalls' = [vendorCalls EXCEPT ![i].frags = Append(@, f)]
             /\ currentToolCall' =
                  IF currentToolCall = <<>> THEN <<>>
                  ELSE <<[currentToolCall[1] EXCEPT !.arguments = Append(@, f)]>>
  /\ UNCHANGED <<adapter, adapterPc, finishSeen, accumulatedToolCalls, emitted>>
  /\ UNCHANGED <<storeVars, chatVars, shellVars, errVars, cacheVars, toolVars,
                 safetyVars, configVars, replVars, fileCacheVars, fileVars, requestVars, connVars, retryVars>>

\* Anthropic: content_block_stop closes the open tool_use block
VendorBlockStop ==
  /\ adapterPc = "reading"
  /\ ~finishSeen
  /\ adapter = "anthropic"
  /\ currentToolCall # <<>>
  /\ accumulatedToolCalls' = accumulatedToolCalls \o ParsedCalls(currentToolCall)
  /\ currentToolCall' = <<>>
  /\ UNCHANGED <<adapter, adapterPc, vendorCalls, finishSeen, emitted>>
  /\ UNCHANGED <<storeVars, chatVars, shellVars, errVars, cacheVars, toolVars,
                 safetyVars, configVars, replVars, fileCacheVars, fileVars, requestVars, connVars, retryVars>>

\* OpenAI: finish_reason tool_calls yields tool_calls unless a JSON.parse
\* throws, stop yields done, anything else yields nothing
OpenAIFinish(reason) ==
  IF reason = "tool_calls"
    THEN /\ accumulatedToolCalls' = WithCurrent
         /\ IF \A k \in 1..Len(WithCurrent) : JSONParses(WithCurrent[k].arguments)
              THEN /\ emitted' = Append(emitted,
                        StreamEvent("tool_calls", ParsedCalls(WithCurrent)))
                   /\ adapterPc' = "reading"
              ELSE /\ adapterPc' = "raised"
                   /\ UNCHANGED emitted
         /\ UNCHANGED currentToolCall
    ELSE /\ emitted' = IF reason = "stop"
                         THEN Append(emitted, StreamEvent("done", <<>>))
                         ELSE emitted
         /\ UNCHANGED <<adapterPc, accumulatedToolCalls, currentToolCall>>

\* ZAI, OpenRouter: any finish reason yields the accumulated calls, if any,
\* then done
CompatFinish ==
  /\ emitted' = emitted
       \o (IF WithCurrent = <<>> THEN <<>>
           ELSE <<StreamEvent("tool_calls", ParsedCalls(WithCurrent))>>)
       \o <<StreamEvent("done", <<>>)>>
  /\ accumulatedToolCalls' = <<>>
  /\ currentToolCall' = <<>>
  /\ UNCHANGED adapterPc

\* Anthropic: message_stop yields the accumulated calls, if any, then done
AnthropicFinish ==
  /\ emitted' = emitted
       \o (IF accumulatedToolCalls = <<>> THEN <<>>
           ELSE <<StreamEvent("tool_calls", accumulatedToolCalls)>>)
       \o <<StreamEvent("done", <<>>)>>
  /\ accumulatedToolCalls' = <<>>
  /\ UNCHANGED <<adapterPc, currentToolCall>>

\* the vendor signals the end of the turn: a chunk with a finish_reason
\* (OpenAI style), message_stop (Anthropic), a finishReason the adapter does
\* not read (Google).  The reason is tool_calls exactly when calls were sent,
\* all of them whole; a turn cut by length may leave a call unfinished.
VendorFinish ==
  /\ adapterPc = "reading"
  /\ ~finishSeen
  /\ adapter = "anthropic" => currentToolCall = <<>>
  /\ \E reason \in FinishReasons :
       /\ reason = "stop" => vendorCalls = <<>>
       /\ reason = "tool_calls" =>
            /\ vendorCalls # <<>>
            /\ \A i \in 1..Len(vendorCalls) :
                 Len(vendorCalls[i].frags) = FragsPerCall
       /\ IF adapter = "openai" THEN OpenAIFinish(reason)
          ELSE IF adapter \in OpenAIStyle THEN CompatFinish
          ELSE IF adapter = "anthropic" THEN AnthropicFinish
          ELSE UNCHANGED <<adapterPc, accumulatedToolCalls, currentToolCall,
                           emitted>>
  /\ finishSeen' = TRUE
  /\ UNCHANGED <<adapter, vendorCalls>>
  /\ UNCHANGED <<storeVars, chatVars, shellVars, errVars, cacheVars, toolVars,
                 safetyVars, configVars, replVars, fileCacheVars, fileVars, requestVars, connVars, retryVars>>

\* the vendor's chunk sequence ends, with or without a finish signal: the
\* for await loop exits and stream() returns; Google yields its events here
VendorEnd ==
  /\ adapterPc = "reading"
  /\ adapterPc' = "returned"
  /\ emitted' =
       IF adapter = "google"
         THEN emitted
                \o (IF accumulatedToolCalls = <<>> THEN <<>>
                    ELSE <<StreamEvent("tool_calls", accumulatedToolCalls)>>)
                \o <<StreamEvent("done", <<>>)>>
         ELSE emitted
  /\ UNCHANGED <<adapter, vendorCalls, finishSeen, accumulatedToolCalls,
                 currentToolCall>>
  /\ UNCHANGED <<storeVars, chatVars, shellVars, errVars, cacheVars, toolVars,
                 safetyVars, configVars, replVars, fileCacheVars, fileVars, requestVars, connVars, retryVars>>

AdapterNext ==
  \/ AdapterStart
  \/ VendorContent
  \/ VendorStartCall
  \/ VendorFragment
  \/ VendorBlockStop
  \/ VendorFinish
  \/ VendorEnd

AdapterSpec == Init /\ [][AdapterNext]_vars

(***************************************************************************)
(* providers/index.js: the cached adapter instance                         *)
(***************************************************************************)
MaxBuilt == 3

\* config.getApiKey(name): the environment's or the stored key
getApiKey(config, name) ==
  IF name \in KeyNames THEN config.apiKeys[name] ELSE NoKey

\* new ProviderClass({apiKey, model}): the n-th instance constructed
NewProvider(n, name, model, apiKey) ==
  [id |-> n, name |-> name, model |-> model, apiKey |-> apiKey]

\* a getProvider call that threw
Threw == NewProvider(0, "", "", NoKey)

CallRecord(name, model, apiKey, cache, instance) ==
  [name |-> name, model |-> model, apiKey |-> apiKey, cache |-> cache,
   instance |-> instance]

\* getProvider(providerName, modelName) with currentProvider = cache;
\* "" stands for an omitted argument
getProvider(providerName, modelName, cache) ==
  LET name == IF providerName # "" THEN providerName ELSE cfg'.provider
      model == IF modelName # "" THEN modelName ELSE cfg'.model
      apiKey == getApiKey(cfg', name)
  IN IF apiKey = NoKey \/ name \notin Vendors
       THEN /\ returned' = <<CallRecord(name, model, apiKey, cache, Threw)>>
            /\ currentProvider' = cache
            /\ built' = built
       ELSE IF /\ cache # <<>>
               /\ cache[1].name = name
               /\ cache[1].model = model
         THEN /\ returned' = <<CallRecord(name, model, apiKey, cache, cache[1])>>
              /\ currentProvider' = cache
              /\ built' = built
         ELSE /\ built < MaxBuilt
              /\ built' = built + 1
              /\ currentProvider' = <<NewProvider(built + 1, name, model, apiKey)>>
              /\ returned' = <<CallRecord(name, model, apiKey, cache,
                                NewProvider(built + 1, name, model, apiKey))>>

\* config.setApiKey(provider, key)
SetApiKey ==
  /\ \E name \in KeyNames, key \in ApiKeys :
       /\ cfg.apiKeys[name] # key
       /\ cfg' = [cfg EXCEPT !.apiKeys[name] = key]
  /\ UNCHANGED <<currentProvider, built, returned>>
  /\ UNCHANGED <<storeVars, chatVars, shellVars, errVars, adapterVars, toolVars,
                 safetyVars, configVars, replVars, fileCacheVars, fileVars, requestVars, connVars, retryVars>>

\* config.setProvider(provider, model); "" stands for an omitted model
setProvider(provider, model) ==
  [cfg EXCEPT !.provider = provider,
              !.model = IF model # "" THEN model ELSE DefaultModel(provider)]

SetProvider ==
  /\ \E provider \in Vendors, model \in Models \cup {""} :
       /\ cfg' = setProvider(provider, model)
       /\ cfg' # cfg
  /\ UNCHANGED <<currentProvider, built, returned>>
  /\ UNCHANGED <<storeVars, chatVars, shellVars, errVars, adapterVars, toolVars,
                 safetyVars, configVars, replVars, fileCacheVars, fileVars, requestVars, connVars, retryVars>>

GetProvider ==
  /\ \E providerName \in KeyNames \cup {""}, modelName \in Models \cup {""} :
       /\ cfg' = cfg
       /\ getProvider(providerName, modelName, currentProvider)
  /\ UNCHANGED <<storeVars, chatVars, shellVars, errVars, adapterVars, toolVars,
                 safetyVars, configVars, replVars, fileCacheVars, fileVars, requestVars, connVars, retryVars>>

\* switchProvider(providerName, modelName)
SwitchProvider ==
  /\ \E provider \in Vendors, model \in Models \cup {""} :
       /\ cfg' = setProvider(provider, model)
       /\ getProvider("", "", <<>>)
  /\ UNCHANGED <<storeVars, chatVars, shellVars, errVars, adapterVars, toolVars,
                 safetyVars, configVars, replVars, fileCacheVars, fileVars, requestVars, connVars, retryVars>>

ProviderNext ==
  \/ SetApiKey
  \/ SetProvider
  \/ GetProvider
  \/ SwitchProvider

ProviderSpec == Init /\ [][ProviderNext]_vars

(***************************************************************************)
(* tools/index.js: executeTool, the dispatcher over built-in, plugin and   *)
(* MCP tools                                                               *)
(***************************************************************************)
\* the names with an entry of their own in builtinTools (a sample)
BuiltinNames == {"read_file", "run_command", "mcp_connect", "mcp_list"}

\* names builtinTools inherits from Object.prototype
InheritedNames == {"constructor"}

\* the tool a plugin may define
PluginNames == {"hello_world"}

\* the names a model may ask for
ToolNames ==
  BuiltinNames \cup InheritedNames \cup PluginNames
    \cup {"frobnicate", "mcp_x", "mcp_fs_read", "mcp_git_log", "mcp_fs_log"}

\* index of the first "_" of str at or after i, Len(str) + 1 when none
RECURSIVE FirstUnderscore(_, _)
FirstUnderscore(str, i) ==
  IF i > Len(str) THEN i
  ELSE IF CharAt(str, i) = "_" THEN i ELSE FirstUnderscore(str, i + 1)

\* name.replace('mcp_', '') for a name that starts with mcp_
WithoutPrefix(name) == SubSeq(name, 5, Len(name))

\* parts[0] of name.replace('mcp_', '').split('_')
McpServerPart(name) ==
  LET rest == WithoutPrefix(name)
  IN SubSeq(rest, 1, FirstUnderscore(rest, 1) - 1)

\* parts.slice(1).join('_')
McpToolPart(name) ==
  LET rest == WithoutPrefix(name)
  IN SubSeq(rest, FirstUnderscore(rest, 1) + 1, Len(rest))

\* isMcpTool(name): not a management command, starts with mcp_, and
\* parts.length >= 2 && parts[1].length > 0
isMcpTool(name) ==
  /\ name \notin {"mcp_connect", "mcp_list"}
  /\ LitAt(name, 1, "mcp_")
  /\ LET rest == WithoutPrefix(name)
         u == FirstUnderscore(rest, 1)
     IN /\ u <= Len(rest)
        /\ FirstUnderscore(rest, u + 1) > u + 1

\* what a call came to: a returned object or a raised exception
ToolOutcome(kind, error) == [kind |-> kind, error |-> error]

\* { error: `Unknown tool: ${name}` }
UnknownTool(name) == ToolOutcome("returned", "Unknown tool: " \o name)

\* the result object of a tool that was found and run
ToolRan == ToolOutcome("returned", "")

\* executeMcpTool(toolName, args): the outcomes it can have
executeMcpTool(toolName) ==
  LET serverName == McpServerPart(toolName)
      actualToolName == McpToolPart(toolName)
  IN IF serverName \notin DOMAIN servers
       THEN {ToolOutcome("returned", "MCP server not connected: " \o serverName)}
       ELSE IF actualToolName \in servers[serverName]
         THEN {ToolRan}
         ELSE {ToolRan, ToolOutcome("returned", "tools/call failed")}

\* plugins.isPluginTool(name)
isPluginTool(name) == name \in pluginTools

\* executeTool(name, args, options): the outcomes it can have
executeTool(name) ==
  IF isMcpTool(name) THEN executeMcpTool(name)
  ELSE IF name \in BuiltinNames THEN {ToolRan}
  ELSE IF name \in InheritedNames
    THEN {ToolOutcome("raised", "Cannot read properties of undefined")}
  ELSE IF isPluginTool(name) THEN {ToolRan}
  ELSE {UnknownTool(name)}

\* getMcpTools(): the names of the tools the connected servers offer
getMcpTools ==
  {"mcp_" \o s \o "_" \o t : s \in DOMAIN servers, t \in ServerTools}
    \cap {n \in ToolNames :
            \E s \in DOMAIN servers : \E t \in servers[s] :
              n = "mcp_" \o s \o "_" \o t}

\* getToolDefinitions(): some built-in, plugin or connected MCP server
\* registers the name
Registered(name) == name \in BuiltinNames \cup pluginTools \cup getMcpTools

\* connectServer(name): the server starts and lists its tools
ConnectServer ==
  /\ \E name \in ServerNames \ DOMAIN servers, tools \in SUBSET ServerTools :
       servers' = [s \in DOMAIN servers \cup {name} |->
                     IF s = name THEN tools ELSE servers[s]]
  /\ UNCHANGED <<pluginTools, executed>>
  /\ UNCHANGED <<storeVars, chatVars, shellVars, errVars, adapterVars, cacheVars,
                 safetyVars, configVars, replVars, fileCacheVars, fileVars, requestVars, connVars, retryVars>>

\* disconnectServer(name)
DisconnectServer ==
  /\ \E name \in DOMAIN servers :
       servers' = [s \in DOMAIN servers \ {name} |-> servers[s]]
  /\ UNCHANGED <<pluginTools, executed>>
  /\ UNCHANGED <<storeVars, chatVars, shellVars, errVars, adapterVars, cacheVars,
                 safetyVars, configVars, replVars, fileCacheVars, fileVars, requestVars, connVars, retryVars>>

\* initTools(): the plugins found are registered
LoadPlugins ==
  /\ pluginTools = {}
  /\ pluginTools' = PluginNames
  /\ UNCHANGED <<servers, executed>>
  /\ UNCHANGED <<storeVars, chatVars, shellVars, errVars, adapterVars, cacheVars,
                 safetyVars, configVars, replVars, fileCacheVars, fileVars, requestVars, connVars, retryVars>>

ExecuteTool ==
  /\ \E name \in ToolNames :
       \E outcome \in executeTool(name) :
         executed' = <<[name |-> name, registered |-> Registered(name),
                        outcome |-> outcome]>>
  /\ UNCHANGED <<servers, pluginTools>>
  /\ UNCHANGED <<storeVars, chatVars, shellVars, errVars, adapterVars, cacheVars,
                 safetyVars, configVars, replVars, fileCacheVars, fileVars, requestVars, connVars, retryVars>>

ToolNext ==
  \/ ConnectServer
  \/ DisconnectServer
  \/ LoadPlugins
  \/ ExecuteTool

ToolSpec == Init /\ [][ToolNext]_vars

(***************************************************************************)
(* the names getMcpTools publishes, given back to executeTool              *)
(***************************************************************************)
\* names a server can have in mcp.json and names of the tools it can list
ConfiguredNames == {"fs", "my_fs"}

ListedTools == {"read", "read_file", "_tmp"}

\* name: `mcp_${serverName}_${tool.name}`
PublishedName(serverName, tool) == "mcp_" \o serverName \o "_" \o tool

\* connectServer(name) for a configured name: the server lists its tools
ConnectConfigured ==
  /\ \E name \in ConfiguredNames \ DOMAIN servers, tools \in SUBSET ListedTools :
       servers' = [s \in DOMAIN servers \cup {name} |->
                     IF s = name THEN tools ELSE servers[s]]
  /\ UNCHANGED <<pluginTools, executed>>
  /\ UNCHANGED <<storeVars, chatVars, shellVars, errVars, adapterVars, cacheVars,
                 safetyVars, configVars, replVars, fileCacheVars, fileVars,
                 requestVars, connVars, retryVars>>
\* the model asks for a tool by a name getMcpTools() gave it
ExecutePublished ==
  /\ \E s \in DOMAIN servers :
       \E t \in servers[s] :
         LET name == PublishedName(s, t)
         IN \E outcome \in executeTool(name) :
              executed' = <<[name |-> name, server |-> s, tool |-> t,
                             isMcpTool |-> isMcpTool(name),
                             serverName |-> McpServerPart(name),
                             actualToolName |-> McpToolPart(name),
                             outcome |-> outcome]>>
  /\ UNCHANGED <<servers, pluginTools>>
  /\ UNCHANGED <<storeVars, chatVars, shellVars, errVars, adapterVars, cacheVars,
                 safetyVars, configVars, replVars, fileCacheVars, fileVars,
                 requestVars, connVars, retryVars>>
NamingNext ==
  \/ ConnectConfigured
  \/ DisconnectServer
  \/ ExecutePublished

NamingSpec == Init /\ [][NamingNext]_vars

(***************************************************************************)
(* checkCommandSafety applied to the commands a model can compose          *)
(***************************************************************************)
MaxWords == 3

\* the words commands are composed of
Words == {"ls", "lsblk", "cat", "git", "status", "push", "rm", "-rf", "sudo",
          ";", "&&", "reboot"}

WordCount(str) ==
  IF str = "" THEN 0
  ELSE 1 + Cardinality({i \in 1..Len(str) : CharAt(str, i) = " "})

\* the model adds a word to the command
TypeWord ==
  /\ WordCount(typed) < MaxWords
  /\ \E w \in Words : typed' = IF typed = "" THEN w ELSE typed \o " " \o w
  /\ checked' = <<>>
  /\ UNCHANGED <<storeVars, chatVars, shellVars, errVars, adapterVars, cacheVars,
                 toolVars, configVars, replVars, fileCacheVars, fileVars, requestVars, connVars, retryVars>>

\* checkCommandSafety(command)
CheckCommand ==
  /\ typed # ""
  /\ checked = <<>>
  /\ checked' = <<[command |-> typed, safety |-> checkCommandSafety(typed)]>>
  /\ UNCHANGED typed
  /\ UNCHANGED <<storeVars, chatVars, shellVars, errVars, adapterVars, cacheVars,
                 toolVars, configVars, replVars, fileCacheVars, fileVars, requestVars, connVars, retryVars>>

SafetyNext ==
  \/ TypeWord
  \/ CheckCommand

SafetySpec == Init /\ [][SafetyNext]_vars

(***************************************************************************)
(* ChatRepl (src/src/utils/chat.js): the prompt loop and sendMessage       *)
(* draining the chat() sequences of the agent                              *)
(***************************************************************************)
autoContinueMax == 8

\* handleToolCall calls counted per sendMessage, above which the count no
\* longer matters to shouldAutoContinue
MaxToolEvents == 3

\* the kinds of response text: "empty", "short" (under 50 characters),
\* "long", and "unfinished" (matching one of the incomplete patterns)
ResponseKinds == {"empty", "short", "long", "unfinished"}

\* shouldAutoContinue(response, toolCallCount)
shouldAutoContinue(text, toolCallCount) ==
  IF text = "empty" /\ toolCallCount = 0 THEN FALSE
  ELSE IF text = "unfinished" THEN TRUE
  ELSE toolCallCount > 2 /\ text \in {"empty", "short"}

\* the chat() sequence sendMessage is iterating
Top == Len(generators)

\* sendMessage(message) up to the first pull of agent.chat(message)
sendMessage ==
  /\ processing' = TRUE
  /\ lastToolCallCount' = 0
  /\ response' = "empty"

\* promptNext, handleInput: the user enters a message at the prompt
ReplInput ==
  /\ ~processing
  /\ \A i \in 1..Len(generators) : generators[i] = "returned"
  /\ sendMessage
  /\ generators' = <<"running">>
  /\ UNCHANGED autoContinueCount
  /\ UNCHANGED <<storeVars, chatVars, shellVars, errVars, adapterVars, cacheVars,
                 toolVars, safetyVars, configVars, fileCacheVars, fileVars, requestVars, connVars, retryVars>>

\* chunk.type === 'content': response += chunk.content
ChunkContent ==
  /\ Top > 0 /\ generators[Top] = "running"
  /\ \E kind \in ResponseKinds \ {"empty", response} : response' = kind
  /\ UNCHANGED <<generators, lastToolCallCount, autoContinueCount, processing>>
  /\ UNCHANGED <<storeVars, chatVars, shellVars, errVars, adapterVars, cacheVars,
                 toolVars, safetyVars, configVars, fileCacheVars, fileVars, requestVars, connVars, retryVars>>

\* a tool_call event: onToolCall is handleToolCall, lastToolCallCount++
ChunkToolCall ==
  /\ Top > 0 /\ generators[Top] = "running"
  /\ lastToolCallCount < MaxToolEvents
  /\ lastToolCallCount' = lastToolCallCount + 1
  /\ UNCHANGED <<generators, response, autoContinueCount, processing>>
  /\ UNCHANGED <<storeVars, chatVars, shellVars, errVars, adapterVars, cacheVars,
                 toolVars, safetyVars, configVars, fileCacheVars, fileVars, requestVars, connVars, retryVars>>

\* chat() yields done and stays suspended at that yield while the loop body
\* runs (markdown, cost footer, await autoSave())
ChunkDone ==
  /\ Top > 0 /\ generators[Top] = "running"
  /\ generators' = [generators EXCEPT ![Top] = "suspended"]
  /\ UNCHANGED <<response, lastToolCallCount, autoContinueCount, processing>>
  /\ UNCHANGED <<storeVars, chatVars, shellVars, errVars, adapterVars, cacheVars,
                 toolVars, safetyVars, configVars, fileCacheVars, fileVars, requestVars, connVars, retryVars>>

\* an auto-continue that does not look at the counter
AutoContinue_NoLimit ==
  /\ Top > 0 /\ generators[Top] = "suspended" /\ processing
  /\ shouldAutoContinue(response, lastToolCallCount)
  /\ autoContinueCount' = autoContinueCount + 1
  /\ sendMessage
  /\ generators' = Append(generators, "running")
  /\ UNCHANGED <<storeVars, chatVars, shellVars, errVars, adapterVars, cacheVars,
                 toolVars, safetyVars, configVars, fileCacheVars, fileVars, requestVars, connVars, retryVars>>

\* the done branch: auto-continue, await this.sendMessage('continue')
AutoContinue ==
  /\ Top > 0 /\ generators[Top] = "suspended" /\ processing
  /\ shouldAutoContinue(response, lastToolCallCount)
  /\ autoContinueCount < autoContinueMax
  /\ autoContinueCount' = autoContinueCount + 1
  /\ sendMessage
  /\ generators' = Append(generators, "running")
  /\ UNCHANGED <<storeVars, chatVars, shellVars, errVars, adapterVars, cacheVars,
                 toolVars, safetyVars, configVars, fileCacheVars, fileVars, requestVars, connVars, retryVars>>

\* the done branch without auto-continue: the loop pulls again, chat()
\* returns, sendMessage ends
DoneDrained ==
  /\ Top > 0 /\ generators[Top] = "suspended" /\ processing
  /\ ~(shouldAutoContinue(response, lastToolCallCount)
         /\ autoContinueCount < autoContinueMax)
  /\ autoContinueCount' =
       IF shouldAutoContinue(response, lastToolCallCount)
         THEN autoContinueCount ELSE 0
  /\ generators' = [generators EXCEPT ![Top] = "returned"]
  /\ processing' = FALSE
  /\ UNCHANGED <<response, lastToolCallCount>>
  /\ UNCHANGED <<storeVars, chatVars, shellVars, errVars, adapterVars, cacheVars,
                 toolVars, safetyVars, configVars, fileCacheVars, fileVars, requestVars, connVars, retryVars>>

\* chat() yields error or max_iterations, the loop pulls again, chat()
\* returns, sendMessage ends
ChunkEndsWithoutDone ==
  /\ Top > 0 /\ generators[Top] = "running"
  /\ generators' = [generators EXCEPT ![Top] = "returned"]
  /\ processing' = FALSE
  /\ UNCHANGED <<response, lastToolCallCount, autoContinueCount>>
  /\ UNCHANGED <<storeVars, chatVars, shellVars, errVars, adapterVars, cacheVars,
                 toolVars, safetyVars, configVars, fileCacheVars, fileVars, requestVars, connVars, retryVars>>

\* `return` after the awaited sendMessage('continue'): leaving the loop
\* closes the chat() sequence that was suspended at done
ReturnFromContinue ==
  /\ ~processing
  /\ \E i \in 1..Len(generators) :
       /\ generators[i] = "suspended"
       /\ \A j \in (i + 1)..Len(generators) : generators[j] = "returned"
       /\ generators' = [generators EXCEPT ![i] = "returned"]
  /\ UNCHANGED <<response, lastToolCallCount, autoContinueCount, processing>>
  /\ UNCHANGED <<storeVars, chatVars, shellVars, errVars, adapterVars, cacheVars,
                 toolVars, safetyVars, configVars, fileCacheVars, fileVars, requestVars, connVars, retryVars>>

ReplNext ==
  \/ ReplInput
  \/ ChunkContent
  \/ ChunkToolCall
  \/ ChunkDone
  \/ AutoContinue
  \/ DoneDrained
  \/ ChunkEndsWithoutDone
  \/ ReturnFromContinue

ReplSpec == Init /\ [][ReplNext]_vars

(***************************************************************************)
(* FileCache (src/unnamed/part_001): the LRU cache with TTL of file reads  *)
(***************************************************************************)
\* options.maxSize and options.ttlMs of the cache under study
CacheMaxSize == 2
CacheTtl == 1
\* the clock stops here
MaxClock == 2

\* the keys of this.cache
Cached(cache) == {p \in Paths : cache[p] # <<>>}

\* splice(indexOf(key), 1): the first occurrence of key leaves the list
RemoveFirst(order, key) ==
  LET at == {i \in 1..Len(order) : order[i] = key}
  IN IF at = {} THEN order
     ELSE LET idx == CHOOSE i \in at : \A j \in at : i <= j
          IN SubSeq(order, 1, idx - 1) \o SubSeq(order, idx + 1, Len(order))

\* touch(key)
touch(order, key) == Append(RemoveFirst(order, key), key)

\* evict(): accessOrder.shift() and cache.delete(oldest)
evict(fc) ==
  IF Len(fc.accessOrder) > 0
  THEN [cache |-> [fc.cache EXCEPT ![Head(fc.accessOrder)] = <<>>],
        accessOrder |-> Tail(fc.accessOrder)]
  ELSE fc

\* get(path) at time t: the content returned (<<>> for null) and the cache
\* left behind
FileCacheGet(fc, k, t) ==
  IF fc.cache[k] = <<>>
  THEN [content |-> <<>>, fc |-> fc]
  ELSE IF t - fc.cache[k][1].timestamp > CacheTtl
  THEN [content |-> <<>>,
        fc |-> [fc EXCEPT !.cache = [fc.cache EXCEPT ![k] = <<>>]]]
  ELSE [content |-> <<fc.cache[k][1].content>>,
        fc |-> [fc EXCEPT !.accessOrder = touch(fc.accessOrder, k)]]

\* set(path, content) at time t
FileCacheSet(fc, k, body, t) ==
  LET room == IF Cardinality(Cached(fc.cache)) >= CacheMaxSize
                   /\ fc.cache[k] = <<>>
              THEN evict(fc) ELSE fc
  IN [cache |-> [room.cache EXCEPT ![k] = <<[content |-> body, timestamp |-> t]>>],
      accessOrder |-> touch(room.accessOrder, k)]

\* invalidate(path)
invalidate(fc, k) ==
  [cache |-> [fc.cache EXCEPT ![k] = <<>>],
   accessOrder |-> RemoveFirst(fc.accessOrder, k)]

\* the singleton fileCache
TheCache == [cache |-> fileCache, accessOrder |-> accessOrder]

\* time passes
Tick ==
  /\ now < MaxClock
  /\ now' = now + 1
  /\ UNCHANGED <<fileCache, accessOrder, useOrder>>
  /\ UNCHANGED <<storeVars, chatVars, shellVars, errVars, adapterVars, cacheVars,
                 toolVars, safetyVars, configVars, replVars, fileVars, requestVars, connVars, retryVars>>

CacheSet ==
  /\ \E k \in Paths, body \in Contents :
       LET after == FileCacheSet(TheCache, k, body, now)
       IN /\ fileCache' = after.cache
          /\ accessOrder' = after.accessOrder
          /\ useOrder' = touch(useOrder, k)
  /\ UNCHANGED now
  /\ UNCHANGED <<storeVars, chatVars, shellVars, errVars, adapterVars, cacheVars,
                 toolVars, safetyVars, configVars, replVars, fileVars, requestVars, connVars, retryVars>>

CacheGet ==
  /\ \E k \in Paths :
       LET got == FileCacheGet(TheCache, k, now)
       IN /\ fileCache' = got.fc.cache
          /\ accessOrder' = got.fc.accessOrder
          /\ useOrder' = IF got.content # <<>> THEN touch(useOrder, k)
                         ELSE useOrder
  /\ UNCHANGED now
  /\ UNCHANGED <<storeVars, chatVars, shellVars, errVars, adapterVars, cacheVars,
                 toolVars, safetyVars, configVars, replVars, fileVars, requestVars, connVars, retryVars>>

CacheInvalidate ==
  /\ \E k \in Paths :
       /\ fileCache' = invalidate(TheCache, k).cache
       /\ accessOrder' = invalidate(TheCache, k).accessOrder
  /\ UNCHANGED <<now, useOrder>>
  /\ UNCHANGED <<storeVars, chatVars, shellVars, errVars, adapterVars, cacheVars,
                 toolVars, safetyVars, configVars, replVars, fileVars, requestVars, connVars, retryVars>>

\* clear()
CacheClear ==
  /\ fileCache' = [p \in Paths |-> <<>>]
  /\ accessOrder' = <<>>
  /\ UNCHANGED <<now, useOrder>>
  /\ UNCHANGED <<storeVars, chatVars, shellVars, errVars, adapterVars, cacheVars,
                 toolVars, safetyVars, configVars, replVars, fileVars, requestVars, connVars, retryVars>>

CacheNext ==
  \/ Tick
  \/ CacheSet
  \/ CacheGet
  \/ CacheInvalidate
  \/ CacheClear

CacheSpec == Init /\ [][CacheNext]_vars

(***************************************************************************)
(* The file tools (src/src/tools/security.js: readFileOp ... renameFileOp) *)
(* and the UndoManager (src/unnamed/part_000)                              *)
(***************************************************************************)
MAX_BACKUPS == 20

\* backed-up modifications made in one run
MaxEdits == 3

\* the first n elements of s
FirstN(s, n) == IF Len(s) <= n THEN s ELSE SubSeq(s, 1, n)

\* backup(filepath, operation): the entry put at the head of the history,
\* with the content written to the backup file
BackupEntry(disk, p, op) ==
  [filepath |-> p, operation |-> op, existed |-> disk[p] # <<>>,
   hasContent |-> disk[p] # <<>>, content |-> disk[p]]

\* history.unshift(entry), then the cleanup of the entries beyond MAX_BACKUPS
backup(hist, disk, p, op) ==
  FirstN(<<BackupEntry(disk, p, op)>> \o hist, MAX_BACKUPS)

\* backupFile(path, operation) as the tools call it
BackupFile(p, op) ==
  /\ history' = backup(history, files, p, op)
  /\ before' = FirstN(<<files>> \o before, MAX_BACKUPS)
  /\ backups' = backups + 1

\* what undo() does to the file of the entry it took off the history
Restore(disk, last) ==
  IF last.operation = "delete"
  THEN (IF last.hasContent THEN [disk EXCEPT ![last.filepath] = last.content]
        ELSE disk)
  ELSE IF last.existed
  THEN (IF last.hasContent THEN [disk EXCEPT ![last.filepath] = last.content]
        ELSE disk)
  ELSE [disk EXCEPT ![last.filepath] = <<>>]

UndoFailed == [success |-> FALSE, error |-> "No changes to undo"]

UndoDone == [success |-> TRUE, error |-> ""]

\* an undo() that takes the oldest entry of the history
undo_Oldest(hist, disk) ==
  IF Len(hist) = 0
  THEN [history |-> hist, files |-> disk, result |-> UndoFailed]
  ELSE [history |-> SubSeq(hist, 1, Len(hist) - 1),
        files |-> Restore(disk, hist[Len(hist)]),
        result |-> UndoDone]

\* undo(): history.shift() and the restoration
undo(hist, disk) ==
  IF Len(hist) = 0
  THEN [history |-> hist, files |-> disk, result |-> UndoFailed]
  ELSE [history |-> Tail(hist),
        files |-> Restore(disk, Head(hist)),
        result |-> UndoDone]

\* the result of read_file: the content, or the error of a missing file
ReadResult(p, body) == [path |-> p, content |-> body]

\* read_file without a line range: the cache first, the disk on a miss
ReadFile ==
  /\ \E p \in FilePaths :
       LET got == FileCacheGet(TheCache, p, now)
       IN IF got.content # <<>>
          THEN /\ lastRead' = <<ReadResult(p, got.content)>>
               /\ fileCache' = got.fc.cache
               /\ accessOrder' = got.fc.accessOrder
               /\ useOrder' = touch(useOrder, p)
          ELSE IF files[p] = <<>>
          THEN \* readFile rejects, execute returns { error }
               /\ lastRead' = <<ReadResult(p, <<>>)>>
               /\ fileCache' = got.fc.cache
               /\ accessOrder' = got.fc.accessOrder
               /\ UNCHANGED useOrder
          ELSE LET after == FileCacheSet(got.fc, p, files[p][1], now)
               IN /\ lastRead' = <<ReadResult(p, files[p])>>
                  /\ fileCache' = after.cache
                  /\ accessOrder' = after.accessOrder
                  /\ useOrder' = touch(useOrder, p)
  /\ undoResult' = <<>>
  /\ UNCHANGED <<now, files, history, backups, before, prior>>
  /\ UNCHANGED <<storeVars, chatVars, shellVars, errVars, adapterVars, cacheVars,
                 toolVars, safetyVars, configVars, replVars, requestVars, connVars, retryVars>>
\* write_file: backup, writeFile, fileCache.set
WriteFile ==
  /\ backups < MaxEdits
  /\ \E p \in FilePaths, body \in Contents :
       /\ BackupFile(p, "write")
       /\ files' = [files EXCEPT ![p] = <<body>>]
       /\ prior' = [prior EXCEPT ![p] = <<files[p]>>]
       /\ LET after == FileCacheSet(TheCache, p, body, now)
          IN /\ fileCache' = after.cache
             /\ accessOrder' = after.accessOrder
       /\ useOrder' = touch(useOrder, p)
  /\ lastRead' = <<>> /\ undoResult' = <<>>
  /\ UNCHANGED now
  /\ UNCHANGED <<storeVars, chatVars, shellVars, errVars, adapterVars, cacheVars,
                 toolVars, safetyVars, configVars, replVars, requestVars, connVars, retryVars>>
\* edit_file: readFile, the search, backup, writeFile; the cache is not
\* touched.  The replacement gives the file another content.
EditFile ==
  /\ backups < MaxEdits
  /\ \E p \in FilePaths :
       /\ files[p] # <<>>
       /\ \E found \in BOOLEAN :
            IF found
            THEN /\ BackupFile(p, "edit")
                 /\ \E body \in Contents \ {files[p][1]} :
                      files' = [files EXCEPT ![p] = <<body>>]
                 /\ prior' = [prior EXCEPT ![p] = <<files[p]>>]
            ELSE UNCHANGED <<files, history, before, backups, prior>>
  /\ lastRead' = <<>> /\ undoResult' = <<>>
  /\ UNCHANGED fileCacheVars
  /\ UNCHANGED <<storeVars, chatVars, shellVars, errVars, adapterVars, cacheVars,
                 toolVars, safetyVars, configVars, replVars, requestVars, connVars, retryVars>>
\* delete_file: backup, unlink (which rejects when there is no file); the
\* cache is not touched
DeleteFile ==
  /\ backups < MaxEdits
  /\ \E p \in FilePaths :
       /\ BackupFile(p, "delete")
       /\ IF files[p] # <<>>
          THEN /\ files' = [files EXCEPT ![p] = <<>>]
               /\ prior' = [prior EXCEPT ![p] = <<files[p]>>]
          ELSE UNCHANGED <<files, prior>>
  /\ lastRead' = <<>> /\ undoResult' = <<>>
  /\ UNCHANGED fileCacheVars
  /\ UNCHANGED <<storeVars, chatVars, shellVars, errVars, adapterVars, cacheVars,
                 toolVars, safetyVars, configVars, replVars, requestVars, connVars, retryVars>>
\* rename_file: rename (which rejects when there is no file at oldPath);
\* neither a backup nor the cache
RenameFile ==
  /\ \E oldPath \in FilePaths, newPath \in FilePaths :
       /\ newPath # oldPath
       /\ files[oldPath] # <<>>
       /\ files' = [files EXCEPT ![newPath] = files[oldPath], ![oldPath] = <<>>]
       /\ prior' = [prior EXCEPT ![newPath] = <<files[newPath]>>,
                                 ![oldPath] = <<files[oldPath]>>]
  /\ lastRead' = <<>> /\ undoResult' = <<>>
  /\ UNCHANGED <<history, backups, before>>
  /\ UNCHANGED fileCacheVars
  /\ UNCHANGED <<storeVars, chatVars, shellVars, errVars, adapterVars, cacheVars,
                 toolVars, safetyVars, configVars, replVars, requestVars, connVars, retryVars>>
\* getUndoManager().undo()
Undo ==
  /\ LET done == undo(history, files)
     IN /\ history' = done.history
        /\ files' = done.files
        /\ undoResult' = <<done.result>>
        /\ before' = IF Len(history) = 0 THEN before ELSE Tail(before)
        /\ prior' = IF Len(history) = 0 THEN prior
                    ELSE [prior EXCEPT ![Head(history).filepath] = <<>>]
  /\ lastRead' = <<>>
  /\ UNCHANGED backups
  /\ UNCHANGED fileCacheVars
  /\ UNCHANGED <<storeVars, chatVars, shellVars, errVars, adapterVars, cacheVars,
                 toolVars, safetyVars, configVars, replVars, requestVars, connVars, retryVars>>
FileToolNext ==
  \/ ReadFile
  \/ WriteFile
  \/ EditFile
  \/ DeleteFile
  \/ RenameFile

\* the file tools called one after the other, within the TTL of the cache
FileToolSpec == Init /\ [][FileToolNext]_vars

UndoNext ==
  \/ WriteFile
  \/ EditFile
  \/ DeleteFile
  \/ Undo

\* backed-up modifications and undo()
UndoSpec == Init /\ [][UndoNext]_vars

(***************************************************************************)
(* McpServer.request and handleMessage (src/src/mcp/index.js): JSON-RPC    *)
(* requests and their responses                                            *)
(***************************************************************************)
\* the ids a message of the server can carry: those of the requests and one
\* no request ever has
MessageIds == 0..MaxRequests

\* resolve(...) or reject(...) of the promise of request id: the first call
\* settles it, a later one has no effect
Settle(id, state, by) ==
  /\ promises' = IF promises[id].state = "pending"
                 THEN [promises EXCEPT ![id] = [state |-> state, value |-> by]]
                 ELSE promises
  /\ settleCalls' = [settleCalls EXCEPT ![id] = @ + 1]

\* request(method, params): the timer, the entry of pendingRequests, the
\* write to the server
Request ==
  /\ messageId < MaxRequests
  /\ messageId' = messageId + 1
  /\ timers' = timers \cup {messageId + 1}
  /\ pendingRequests' = pendingRequests \cup {messageId + 1}
  /\ promises' = [promises EXCEPT ![messageId + 1] =
                    [state |-> "pending", value |-> 0]]
  /\ UNCHANGED settleCalls
  /\ UNCHANGED <<storeVars, chatVars, shellVars, errVars, adapterVars, cacheVars,
                 toolVars, safetyVars, configVars, replVars, fileCacheVars,
                 fileVars, connVars, retryVars>>
\* a handleMessage that settles the oldest pending request, whatever the id
\* of the message
HandleMessage_Oldest ==
  /\ \E id \in MessageIds, kind \in {"result", "error"} :
       IF id # 0 /\ pendingRequests # {}
       THEN LET oldest == CHOOSE r \in pendingRequests :
                            \A q \in pendingRequests : r <= q
            IN /\ pendingRequests' = pendingRequests \ {oldest}
               /\ timers' = timers \ {oldest}
               /\ Settle(oldest, IF kind = "error" THEN "rejected" ELSE "resolved", id)
       ELSE UNCHANGED <<pendingRequests, timers, promises, settleCalls>>
  /\ UNCHANGED messageId
  /\ UNCHANGED <<storeVars, chatVars, shellVars, errVars, adapterVars, cacheVars,
                 toolVars, safetyVars, configVars, replVars, fileCacheVars,
                 fileVars, connVars, retryVars>>
\* handleMessage(message) for a message with an id: a result, or an error
HandleMessage ==
  /\ \E id \in MessageIds, kind \in {"result", "error"} :
       IF id \in pendingRequests
       THEN /\ pendingRequests' = pendingRequests \ {id}
            \* the stored resolve and reject clear the timer first
            /\ timers' = timers \ {id}
            /\ Settle(id, IF kind = "error" THEN "rejected" ELSE "resolved", id)
       ELSE UNCHANGED <<pendingRequests, timers, promises, settleCalls>>
  /\ UNCHANGED messageId
  /\ UNCHANGED <<storeVars, chatVars, shellVars, errVars, adapterVars, cacheVars,
                 toolVars, safetyVars, configVars, replVars, fileCacheVars,
                 fileVars, connVars, retryVars>>
\* the timer of a request fires
RequestTimeout ==
  /\ \E id \in timers :
       /\ timers' = timers \ {id}
       /\ pendingRequests' = pendingRequests \ {id}
       /\ Settle(id, "rejected", 0)
  /\ UNCHANGED messageId
  /\ UNCHANGED <<storeVars, chatVars, shellVars, errVars, adapterVars, cacheVars,
                 toolVars, safetyVars, configVars, replVars, fileCacheVars,
                 fileVars, connVars, retryVars>>
RequestNext ==
  \/ Request
  \/ HandleMessage
  \/ RequestTimeout

RequestSpec == Init /\ [][RequestNext]_vars

(***************************************************************************)
(* connectServer, disconnectServer and the close event of a server process *)
(* (src/src/mcp/index.js)                                                  *)
(***************************************************************************)
\* the process of an McpServer runs from spawn until its close event
IsLive(proc) == proc.state \in {"starting", "running"}

\* connectServer(name) up to `await server.start()`: the name has no entry,
\* the configuration is loaded, the process is spawned
ConnectBegin ==
  /\ Len(procs) < MaxProcs
  /\ \E name \in ServerNames :
       /\ registered[name] = 0
       /\ procs' = Append(procs, [name |-> name, state |-> "starting"])
  /\ UNCHANGED registered
  /\ UNCHANGED <<storeVars, chatVars, shellVars, errVars, adapterVars, cacheVars,
                 toolVars, safetyVars, configVars, replVars, fileCacheVars,
                 fileVars, requestVars, retryVars>>
\* start() resolved: servers.set(name, server)
ConnectEnd ==
  /\ \E p \in 1..Len(procs) :
       /\ procs[p].state = "starting"
       /\ procs' = [procs EXCEPT ![p].state = "running"]
       /\ registered' = [registered EXCEPT ![procs[p].name] = p]
  /\ UNCHANGED <<storeVars, chatVars, shellVars, errVars, adapterVars, cacheVars,
                 toolVars, safetyVars, configVars, replVars, fileCacheVars,
                 fileVars, requestVars, retryVars>>
\* disconnectServer(name): stop() kills the process, servers.delete(name);
\* the close event of the process comes later
DisconnectProcess ==
  /\ \E name \in ServerNames :
       /\ registered[name] # 0
       /\ procs' = [procs EXCEPT ![registered[name]].state = "killed"]
       /\ registered' = [registered EXCEPT ![name] = 0]
  /\ UNCHANGED <<storeVars, chatVars, shellVars, errVars, adapterVars, cacheVars,
                 toolVars, safetyVars, configVars, replVars, fileCacheVars,
                 fileVars, requestVars, retryVars>>
\* the close event of a process, killed or ended by itself:
\* servers.delete(this.name)
ProcessClose ==
  /\ \E p \in 1..Len(procs) :
       /\ procs[p].state # "closed"
       /\ procs' = [procs EXCEPT ![p].state = "closed"]
       /\ registered' = [registered EXCEPT ![procs[p].name] = 0]
  /\ UNCHANGED <<storeVars, chatVars, shellVars, errVars, adapterVars, cacheVars,
                 toolVars, safetyVars, configVars, replVars, fileCacheVars,
                 fileVars, requestVars, retryVars>>
ConnectionNext ==
  \/ ConnectBegin
  \/ ConnectEnd
  \/ DisconnectProcess
  \/ ProcessClose

ConnectionSpec == Init /\ [][ConnectionNext]_vars

(***************************************************************************)
(* executeMcpTool: the retry loop around callTool (src/src/mcp/index.js)   *)
(***************************************************************************)
maxRetries == 2

\* str.includes(lit)
Includes(str, lit) == \E i \in 1..Len(str) : LitAt(str, i, lit)

\* the ways an awaited server.callTool(...) followed by `result.content`
\* fails inside the try block, by the message of the error: the timer of
\* request(), an error reported by the server (one of them about a timeout
\* of its own), a response without a result, a server stopped meanwhile
CallErrors ==
  {"MCP request timeout: tools/call", "MCP error", "upstream timeout",
   "Cannot read properties of undefined (reading 'content')",
   "Cannot read properties of null (reading 'stdin')"}

\* { success: true, content: result.content }
McpSuccess == [success |-> TRUE, error |-> "", fallback |-> FALSE]

\* { error: lastError.message, fallback: `Consider using ...` }
McpFailure(message) == [success |-> FALSE, error |-> message, fallback |-> TRUE]

\* { error: `MCP server not connected: ${serverName}` }
McpNotConnected(serverName) ==
  [success |-> FALSE, error |-> "MCP server not connected: " \o serverName,
   fallback |-> FALSE]

\* a retry test that looks at the attempt alone
RetryOnlyAll(message, n) == n # maxRetries

\* the test of the catch block, negated:
\* !(!error.message.includes('timeout') || attempt === maxRetries)
ShouldRetry(message, n) == Includes(message, "timeout") /\ n # maxRetries

\* executeMcpTool(toolName, args) up to the first `await server.callTool`:
\* the name is parsed and the server looked up
McpToolBegin ==
  /\ mcpPhase = "idle"
  /\ \E toolName \in {"mcp_fs_read", "mcp_git_log"}, connected \in BOOLEAN :
       /\ mcpTool' = McpToolPart(toolName)
       /\ attemptLog' = <<>>
       /\ lastError' = ""
       /\ IF connected
            THEN /\ mcpPhase' = "calling"
                 /\ attempt' = 1
                 /\ mcpResult' = <<>>
            ELSE /\ mcpPhase' = "returned"
                 /\ attempt' = 0
                 /\ mcpResult' = <<McpNotConnected(McpServerPart(toolName))>>
  /\ UNCHANGED <<storeVars, chatVars, shellVars, errVars, adapterVars, cacheVars,
                 toolVars, safetyVars, configVars, replVars, fileCacheVars,
                 fileVars, requestVars, connVars>>
\* the awaited callTool gives a result with content: return
CallToolResolves ==
  /\ mcpPhase = "calling"
  /\ attemptLog' = Append(attemptLog, "")
  /\ mcpResult' = <<McpSuccess>>
  /\ mcpPhase' = "returned"
  /\ UNCHANGED <<mcpTool, attempt, lastError>>
  /\ UNCHANGED <<storeVars, chatVars, shellVars, errVars, adapterVars, cacheVars,
                 toolVars, safetyVars, configVars, replVars, fileCacheVars,
                 fileVars, requestVars, connVars>>
\* the try block fails: the catch block keeps the error and either leaves
\* the loop, after which the error object is returned, or goes on to the
\* pause before the next attempt
CallToolRejects ==
  /\ mcpPhase = "calling"
  /\ \E message \in CallErrors :
       /\ attemptLog' = Append(attemptLog, message)
       /\ lastError' = message
       /\ IF ShouldRetry(message, attempt)
            THEN /\ mcpPhase' = "waiting"
                 /\ mcpResult' = <<>>
            ELSE /\ mcpPhase' = "returned"
                 /\ mcpResult' = <<McpFailure(message)>>
  /\ UNCHANGED <<mcpTool, attempt>>
  /\ UNCHANGED <<storeVars, chatVars, shellVars, errVars, adapterVars, cacheVars,
                 toolVars, safetyVars, configVars, replVars, fileCacheVars,
                 fileVars, requestVars, connVars>>
\* the pause of 1000 ms is over: attempt++ and the next callTool
RetryCallTool ==
  /\ mcpPhase = "waiting"
  /\ attempt' = attempt + 1
  /\ mcpPhase' = "calling"
  /\ UNCHANGED <<mcpTool, lastError, attemptLog, mcpResult>>
  /\ UNCHANGED <<storeVars, chatVars, shellVars, errVars, adapterVars, cacheVars,
                 toolVars, safetyVars, configVars, replVars, fileCacheVars,
                 fileVars, requestVars, connVars>>
\* the caller has the result; the next invocation may start
McpToolDone ==
  /\ mcpPhase = "returned"
  /\ mcpPhase' = "idle"
  /\ UNCHANGED <<mcpTool, attempt, lastError, attemptLog, mcpResult>>
  /\ UNCHANGED <<storeVars, chatVars, shellVars, errVars, adapterVars, cacheVars,
                 toolVars, safetyVars, configVars, replVars, fileCacheVars,
                 fileVars, requestVars, connVars>>
RetryNext ==
  \/ McpToolBegin
  \/ CallToolResolves
  \/ CallToolRejects
  \/ RetryCallTool
  \/ McpToolDone

RetrySpec == Init /\ [][RetryNext]_vars

(***************************************************************************)
(* chat() on a provider whose stream reports a failure by an event of type *)
(* error, the last event of its stream, instead of raising                 *)
(***************************************************************************)
\* chunk.type === 'error': none of the branches of the for await loop
StreamErrorEvent ==
  /\ pc = "stream"
  /\ errorTurn # streamCalls
  /\ errorTurn' = streamCalls
  /\ UNCHANGED <<storeVars, chatVars, shellVars, adapterVars, cacheVars, toolVars,
                 safetyVars, configVars, replVars, fileCacheVars, fileVars, requestVars, connVars, retryVars>>

ErrorEventNext ==
  \/ Next
  \/ StreamErrorEvent

ErrorEventSpec == Init /\ [][ErrorEventNext]_vars

(***************************************************************************)
(* Properties of the views                                                 *)
(***************************************************************************)
\* every call has a result and every result has a call
ChainIntegrity(ms) == CallIds(ms) = ToolIds(ms)

\* no id is carried by two tool calls
UniqueCallIds(ms) ==
  \A i, k \in 1..Len(ms) :
    \A j \in 1..Len(ms[i].tool_calls), l \in 1..Len(ms[k].tool_calls) :
      ms[i].tool_calls[j].id = ms[k].tool_calls[l].id => i = k /\ j = l

\* positions (_idx) of the messages a formatted sequence holds
Indices(fs) == {fs[i].idx : i \in 1..Len(fs)}

\* C1: every view returned by getMessages() satisfies chain integrity
\* whenever the stored log does (each call id of the view has a tool message
\* in the view and each tool message of the view has its call in the view).
C1_ViewChainIntegrity ==
  (viewPath # "none" /\ ChainIntegrity(messages)) => ChainIntegrity(view)

\* C3: with more tool messages than MAX_TOOL_MESSAGES and unique call ids,
\* the tool-pruning step keeps, for every call/result pair of the log, both
\* the assistant message and the tool message, or neither.
C3_NoHalfPair ==
  (/\ viewPath \in {"pruned", "minimal"}
   /\ Len(SelectSeq(messages, IsToolMsg)) > MAX_TOOL_MESSAGES
   /\ UniqueCallIds(messages))
  => LET kept == Indices(PruneTools(Formatted(messages)))
     IN \A a, t \in 1..Len(messages) :
          (/\ messages[a].role = "assistant"
           /\ messages[t].role = "tool"
           /\ \E j \in 1..Len(messages[a].tool_calls) :
                messages[a].tool_calls[j].id = messages[t].tool_call_id)
          => (a \in kept <=> t \in kept)

\* a tool-pruned view that dropped some pairs and kept others
C3_Witness ==
  /\ viewPath = "pruned"
  /\ Len(SelectSeq(messages, IsToolMsg)) > MAX_TOOL_MESSAGES
  /\ UniqueCallIds(messages)
  /\ ToolIds(view) # {}
  /\ ToolIds(view) # ToolIds(messages)

\* C5: in every view, an assistant message has null content if and only if
\* it carries tool calls.
C5_NullIffToolCalls ==
  viewPath # "none" =>
    \A i \in 1..Len(view) :
      view[i].role = "assistant" =>
        (view[i].content = Null <=> Len(view[i].tool_calls) > 0)

\* C10: the estimated token cost of a view never exceeds MAX_CONTEXT_TOKENS.
C10_ViewWithinBudget ==
  viewPath # "none" => TotalTokens(view) <= MAX_CONTEXT_TOKENS

(***************************************************************************)
(* Properties of chat()                                                    *)
(***************************************************************************)
CountEvents(type) == Len(SelectSeq(events, LAMBDA e : e.type = type))

HasEvent(type) == \E i \in 1..Len(events) : events[i].type = type

LastEvent == events[Len(events)]

\* chat() is between turns: it has not started, is about to hand the log to
\* the provider, or has returned
BetweenTurns == pc \in {"idle", "loop", "finished"}

\* C2: the stored log satisfies chain integrity in every state chat() can
\* leave it in: every tool-call id of an assistant message has exactly one
\* tool message, and every tool message answers a stored call.
C2_StoredChainIntegrity ==
  BetweenTurns =>
    /\ \A c \in CallIds(messages) : ResultCount(messages, c) = 1
    /\ ToolIds(messages) \subseteq CallIds(messages)

\* every turn of the chat asked for at least one well-formed tool call
EveryTurnCalledTools ==
  /\ ~HasEvent("error")
  /\ \A i \in 1..Len(messages) :
       messages[i].role = "assistant" =>
         \E j \in 1..Len(messages[i].tool_calls) :
           IsValidCall(messages[i].tool_calls[j])

\* steps chat() can still take inside the current turn, at most
StepsLeftInTurn ==
  IF pc = "stream"
  THEN 4 * MaxToolCalls + 3 + (MaxDeltas - CountEvents("content"))
         + (IF toolCalls = <<>> THEN 1 ELSE 0)
  ELSE IF pc \in {"called", "confirm", "running", "resulted"}
  THEN 4 * (Len(validToolCalls) - callIdx) + 1
         + (CASE pc = "called" -> 4 [] pc = "confirm" -> 3
              [] pc = "running" -> 2 [] OTHER -> 1)
  ELSE 1

\* a natural number that bounds the steps chat() can still take
Rank ==
  IF pc = "finished" THEN 0
  ELSE IF pc = "idle" THEN (MaxIterations + 1) * (4 * MaxToolCalls + MaxDeltas + 5)
  ELSE (MaxIterations - iterations) * (4 * MaxToolCalls + MaxDeltas + 5)
         + StepsLeftInTurn

\* until chat() has ended, the step its position calls for can be taken
StepPossible ==
  /\ pc = "idle" => ENABLED ChatStart
  /\ pc = "loop" => ENABLED ChatTurn \/ ENABLED ChatMaxIterations
  /\ pc = "stream" => ENABLED StreamEnd
  /\ pc = "called" => ENABLED ToolBegin
  /\ pc = "confirm" => ENABLED ConfirmAnswer
  /\ pc = "running" => ENABLED ToolFinish
  /\ pc = "resulted" => ENABLED ChatResume

\* C4: provider.stream is called at most maxIterations times during one
\* chat(); when every turn requests valid tool calls the chat ends with a
\* single max_iterations event after exactly maxIterations turns; and chat()
\* ends: until it has ended a step is possible, and every step lowers a
\* natural-number rank.
C4_BoundedTurns ==
  /\ [](streamCalls <= MaxIterations)
  /\ []((pc = "finished" /\ EveryTurnCalledTools) =>
          /\ LastEvent.type = "max_iterations"
          /\ CountEvents("max_iterations") = 1
          /\ ~HasEvent("done")
          /\ streamCalls = MaxIterations)
  /\ [](Rank >= 0 /\ StepPossible)
  /\ [][Rank' < Rank]_vars

\* a chat that used all its turns on tool calls
C4_Witness ==
  /\ pc = "finished"
  /\ EveryTurnCalledTools
  /\ streamCalls = MaxIterations
  /\ LastEvent.type = "max_iterations"

\* C6: when provider.stream raises, chat() yields exactly one error event as
\* its last event, yields neither done nor max_iterations, has stored no
\* assistant message for the failed turn, has no tool in flight and takes no
\* further step (no retry, no tool).
C6_StreamErrorEndsChat ==
  HasEvent("error") =>
    /\ pc = "finished"
    /\ LastEvent.type = "error"
    /\ CountEvents("error") = 1
    /\ ~HasEvent("done")
    /\ ~HasEvent("max_iterations")
    /\ Len(SelectSeq(messages, LAMBDA m : m.role = "assistant")) = streamCalls - 1
    /\ toolRuns = CountEvents("tool_result")
    /\ ~ENABLED Next

\* a stream that raised in the second turn, after text and a tool_calls chunk
C6_Witness ==
  /\ HasEvent("error")
  /\ streamCalls = 2
  /\ content > 0
  /\ Len(toolCalls) > 0

\* the turn in progress received tool calls, none of them well-formed
AllMalformed == Len(toolCalls) > 0 /\ Len(validToolCalls) = 0

\* C7: a turn whose tool calls all have a missing or non-string name ends the
\* chat with done: the step that ends the turn yields done and nothing else,
\* executes no tool and starts no command, and the chat takes no further
\* step.
C7_MalformedOnlyIsDone ==
  /\ [][(/\ pc = "stream"
         /\ pc' # "stream"
         /\ AllMalformed
         /\ events'[Len(events')].type # "error")
        => /\ pc' = "finished"
           /\ events' = Append(events, Event("done", "", "", NoResult))
           /\ toolRuns' = toolRuns
           /\ started' = started
           /\ streamCalls' = streamCalls]_vars
  /\ []((pc # "stream" /\ AllMalformed) =>
          /\ pc = "finished"
          /\ LastEvent.type \in {"done", "error"}
          /\ ~ENABLED Next)

\* a turn made of one missing and one non-string name, ended by done
C7_Witness ==
  /\ pc = "finished"
  /\ LastEvent.type = "done"
  /\ Len(toolCalls) = 2
  /\ toolCalls[1].name = NoName
  /\ toolCalls[2].name = NonStringName

\* C8: runCommand never starts a command matching a dangerous pattern unless
\* a confirmation callback was consulted for it and answered true.
C8_DangerousNeedsConfirmation ==
  \A s \in started : MatchesDangerous(s.command) => s.confirmed

\* C9: when the callback answers false for an unsafe run_command, the command
\* is not started, the rejection result is appended as the tool message of
\* the call and announced by tool_result, and chat() goes on without an
\* error event.
C9_RejectionContinues ==
  /\ [][(pc = "confirm" /\ confirmed' = "false")
        => LET tc == validToolCalls[callIdx]
               stored == messages'[Len(messages')]
           IN /\ started' = started
              /\ events' = Append(events,
                                  Event("tool_result", "run_command", tc.command,
                                        Rejected(tc.command)))
              /\ Rejected(tc.command).success = "false"
              /\ Rejected(tc.command).error = "Command was rejected by user"
              /\ Len(messages') = Len(messages) + 1
              /\ stored.role = "tool"
              /\ stored.tool_call_id = tc.id
              /\ stored.content = Rejected(tc.command).len
              /\ pc' = "resulted"]_vars
  /\ []((confirmed = "false" /\ pc = "resulted") =>
          /\ ~HasEvent("error")
          /\ ENABLED ChatResume)

\* a rejected command whose result has been announced
C9_Witness ==
  /\ confirmed = "false"
  /\ pc = "resulted"
  /\ LastEvent.type = "tool_result"
  /\ LastEvent.result.error = "Command was rejected by user"

(***************************************************************************)
(* Frame effects of the store                                              *)
(***************************************************************************)
\* a step that is a call of getMessages()
IsGetMessagesStep == viewPath = "none" /\ viewPath' # "none"

\* C11: producing a view never mutates the stored log: across every call of
\* getMessages(), on every path, the stored message sequence is the same.
C11_GetMessagesKeepsLog ==
  [][IsGetMessagesStep => messages' = messages]_vars

\* a view that differs from the log it was made of: messages were dropped
\* and tool results truncated, and the log still holds them in full
C11_Witness ==
  /\ viewPath = "pruned"
  /\ Len(view) < Len(messages)
  /\ \E i \in 1..Len(view) :
       view[i].role = "tool"
         /\ view[i].content = TRUNCATE_TOOL_RESULTS + TRUNCATION_MARKER_LEN
  /\ \A i \in 1..Len(messages) :
       messages[i].role = "tool" => messages[i].content #
         TRUNCATE_TOOL_RESULTS + TRUNCATION_MARKER_LEN

\* a step that is a call of addMessage, addAssistantMessage or addToolResult
IsAddStep == appended' = appended + 1

LastAssistant ==
  LET at == {i \in 1..Len(messages) : messages[i].role = "assistant"}
  IN IF at = {} THEN 0 ELSE CHOOSE i \in at : \A k \in at : k <= i

\* the well-formed calls of the assistant message at position a
ValidCallsAt(a) == SelectSeq(messages[a].tool_calls, IsValidCall)

\* on the event channel a tool_call is directly followed by the tool_result
\* of the same call, and a tool_result directly follows its tool_call
EventsPaired ==
  \A i \in 1..Len(events) :
    /\ (events[i].type = "tool_call" /\ i < Len(events)) =>
         /\ events[i + 1].type = "tool_result"
         /\ events[i + 1].tool = events[i].tool
         /\ events[i + 1].command = events[i].command
    /\ events[i].type = "tool_result" =>
         /\ i > 1
         /\ events[i - 1].type = "tool_call"
         /\ events[i - 1].tool = events[i].tool

\* the results stored after the last assistant message answer its valid
\* calls in the order the model emitted them, none skipped
ResultsInCallOrder ==
  LastAssistant > 0 =>
    LET calls == ValidCallsAt(LastAssistant)
    IN /\ Len(messages) - LastAssistant <= Len(calls)
       /\ \A j \in 1..(Len(messages) - LastAssistant) :
            /\ messages[LastAssistant + j].role = "tool"
            /\ messages[LastAssistant + j].tool_call_id = calls[j].id
            /\ messages[LastAssistant + j].name = calls[j].name

\* one call at a time: announced, executed, stored, announced as result
OneCallAtATime ==
  LET announced == CountEvents("tool_call")
      results == CountEvents("tool_result")
      stored == Len(SelectSeq(messages, IsToolMsg))
  IN /\ stored = results
     /\ pc = "called" => announced = results + 1 /\ toolRuns = results
     /\ pc \in {"confirm", "running"} =>
          announced = results + 1 /\ toolRuns = announced
     /\ pc \notin {"called", "confirm", "running"} =>
          announced = results /\ toolRuns = results
     /\ pc \in {"called", "confirm", "running"} =>
          /\ events[Len(events)].type = "tool_call"
          /\ events[Len(events)].tool = validToolCalls[callIdx].name
          /\ events[Len(events)].command = validToolCalls[callIdx].command
          /\ Len(messages) - LastAssistant = callIdx - 1
     /\ pc = "resulted" => Len(messages) - LastAssistant = callIdx

\* C13: within a turn the valid calls run one at a time in the order the
\* model emitted them (tool_call, execution, result stored, tool_result, all
\* before the next tool_call); a model turn starts only when every valid call
\* of the previous batch has its result stored; a turn without tool calls
\* ends the sequence with done.
C13_OneAtATimeInOrder ==
  /\ [](EventsPaired /\ ResultsInCallOrder /\ OneCallAtATime)
  /\ [][streamCalls' # streamCalls =>
          (LastAssistant > 0 =>
             Len(messages) - LastAssistant = Len(ValidCallsAt(LastAssistant)))]_vars
  /\ [][(pc = "stream" /\ pc' # "stream" /\ toolCalls = <<>>
           /\ events'[Len(events')].type # "error")
        => pc' = "finished" /\ events' = Append(events, Event("done", "", "", NoResult))]_vars

\* a turn with two valid calls, both run, followed by a turn without calls
C13_Witness ==
  /\ pc = "finished"
  /\ LastEvent.type = "done"
  /\ streamCalls = 2
  /\ CountEvents("tool_result") = 2
  /\ toolCalls = <<>>

\* the markers that end the sequence chat() emits
TerminalMarkers == {"done", "error", "max_iterations"}

\* chat() has returned or thrown: its generator yields nothing more
Ended == pc \in {"finished", "thrown"}

\* C14: the sequence a chat() invocation has emitted once it is over ends
\* with exactly one terminal marker (done, error or max_iterations), and
\* every other event precedes that marker, whether the provider, the tools
\* and the callbacks return or throw.
C14_OneTerminalMarker ==
  /\ \A i \in 1..(Len(events) - 1) : events[i].type \notin TerminalMarkers
  /\ Ended => /\ Len(events) > 0
              /\ LastEvent.type \in TerminalMarkers

AssistantCount == Len(SelectSeq(messages, LAMBDA m : m.role = "assistant"))

StoredResults == Len(SelectSeq(messages, IsToolMsg))

IsFailure(result) == result.error # ""

\* C16: a failure while a tool executes (executeTool rejects, or the tool
\* returns an error object) does not end chat(): the step in which the tool
\* fails appends the error result as the tool message of that call, yields
\* it as tool_result and no error event, and chat() can go on to the next
\* call or turn.
C16_ToolFailureContinues ==
  /\ [][(pc \in {"called", "confirm", "running"}
           /\ (events' # events \/ pc' \in {"finished", "thrown"}))
        => LET tc == validToolCalls[callIdx]
               stored == messages'[Len(messages')]
               yielded == events'[Len(events')]
           IN /\ pc' = "resulted"
              /\ events' = Append(events, yielded)
              /\ yielded.type = "tool_result"
              /\ yielded.tool = tc.name
              /\ Len(messages') = Len(messages) + 1
              /\ SubSeq(messages', 1, Len(messages)) = messages
              /\ stored.role = "tool"
              /\ stored.tool_call_id = tc.id
              /\ stored.content = yielded.result.len]_vars
  /\ []((pc = "resulted" /\ IsFailure(LastEvent.result)) => ENABLED ChatResume)
  /\ [](HasEvent("error") => CountEvents("error") = 1 /\ LastEvent.type = "error")
  /\ [][(pc # "stream") => CountEvents("error")' = CountEvents("error")]_vars

\* a chat that went on to its second turn after a tool threw and a command
\* failed
C16_Witness ==
  /\ pc = "stream"
  /\ streamCalls = 2
  /\ \E i \in 1..Len(events) :
       events[i].type = "tool_result" /\ events[i].result = Thrown
  /\ \E i \in 1..Len(events) :
       events[i].type = "tool_result" /\ events[i].result = Failed

\* C17: when the stream of a turn delivers an event of type error instead
\* of raising, chat() yields a single error event, yields no done and
\* stores no assistant message for that turn.
C17_ErrorEventSurfaced ==
  (errorTurn > 0 /\ errorTurn = streamCalls /\ pc # "stream") =>
    /\ CountEvents("error") = 1
    /\ ~HasEvent("done")
    /\ AssistantCount = streamCalls - 1

AdapterEnded == adapterPc \in {"returned", "raised"}

IsTerminalEvent(e) == e.type \in {"done", "error"}

\* C18: for every adapter and every finite vendor chunk sequence, the Stream
\* Events of stream() end with exactly one terminal event, done or error,
\* and nothing follows it.
C18_OneTerminalEvent ==
  AdapterEnded =>
    /\ emitted # <<>>
    /\ IsTerminalEvent(emitted[Len(emitted)])
    /\ \A k \in 1..(Len(emitted) - 1) : ~IsTerminalEvent(emitted[k])

\* the ToolCallRef the vendor's call number i should be decoded into
OwnRef(i) ==
  [id |-> vendorCalls[i].id, name |-> vendorCalls[i].name,
   arguments |-> ParseOrEmpty(vendorCalls[i].frags)]

\* C19: in the OpenAI-style adapters every emitted tool_calls event comes
\* after the finish signal and holds one ToolCallRef per started call, in
\* start order, each with the id and name of its own call and the in-order
\* concatenation of exactly that call's argument fragments.
C19_FragmentsByCall ==
  adapter \in OpenAIStyle =>
    \A k \in 1..Len(emitted) :
      emitted[k].type = "tool_calls" =>
        /\ finishSeen
        /\ Len(emitted[k].toolCalls) = Len(vendorCalls)
        /\ \A i \in 1..Len(vendorCalls) : emitted[k].toolCalls[i] = OwnRef(i)

\* the cached instance was built for exactly this vendor, model and key
BuiltFor(cache, name, model, apiKey) ==
  /\ cache # <<>>
  /\ cache[1].name = name
  /\ cache[1].model = model
  /\ cache[1].apiKey = apiKey

\* C20: a getProvider() call that returns hands out the cached instance
\* exactly when vendor, model and credentials are those the cached instance
\* was built with, and otherwise a fresh instance that replaces the cached
\* one; the instance has the requested name and model.
C20_ReuseIffUnchanged ==
  \A k \in 1..Len(returned) :
    LET call == returned[k]
    IN call.instance # Threw =>
         /\ call.instance.name = call.name
         /\ call.instance.model = call.model
         /\ IF BuiltFor(call.cache, call.name, call.model, call.apiKey)
              THEN call.instance = call.cache[1]
              ELSE /\ call.instance \notin {call.cache[j] : j \in 1..Len(call.cache)}
                   /\ call.instance.apiKey = call.apiKey

\* C21: executeTool with a name that no built-in, plugin or connected MCP
\* server registers never raises and returns {error: "Unknown tool: <name>"},
\* names starting with mcp_ included.
C21_UnknownToolError ==
  \A k \in 1..Len(executed) :
    ~executed[k].registered =>
      executed[k].outcome = UnknownTool(executed[k].name)

\* the command is one of the allow-listed commands: the allow-listed text
\* alone or followed by arguments
IsAllowListed(command) ==
  \E safe \in SAFE_COMMANDS :
    \/ TrimLeft(command) = safe
    \/ LitAt(TrimLeft(command), 1, safe \o " ")

\* the command chains further commands
ChainsCommands(command) ==
  \E i \in 1..Len(command) :
    LitAt(command, i, ";") \/ LitAt(command, i, "&&") \/ LitAt(command, i, "|")

\* C22: checkCommandSafety says safe only for a command that matches no
\* deny-list pattern and is an allow-listed command; a command that merely
\* begins with an allow-listed word, or chains further commands after one,
\* is unsafe and requires confirmation.
C22_SafeOnlyAllowListed ==
  \A k \in 1..Len(checked) :
    LET command == checked[k].command
        result == checked[k].safety
    IN /\ result.safe =>
            /\ ~MatchesDangerous(command)
            /\ IsAllowListed(command)
            /\ ~ChainsCommands(command)
       /\ ~result.safe => result.requiresConfirmation

\* what does hold: a deny-list match wins, and a safe command begins with
\* the text of an allow-listed one
C22_DenyWins ==
  \A k \in 1..Len(checked) :
    LET command == checked[k].command
        result == checked[k].safety
    IN /\ MatchesDangerous(command) => ~result.safe
       /\ result.safe => \E safe \in SAFE_COMMANDS : LitAt(command, 1, safe)
       /\ ~result.safe => result.requiresConfirmation

\* C23: with no confirmation callback (agent.confirmCommands disabled) and
\* agent.autoApproveReadOnly false, an unsafe run_command is not executed:
\* the call fails with {success: false, error}, the result is stored as the
\* tool message of the call and announced, and chat() goes on.
C23_RefusedWithoutCallback ==
  [][(/\ pc = "called"
      /\ ~confirmCommands
      /\ ~agentConfig.autoApproveReadOnly
      /\ validToolCalls[callIdx].name = "run_command"
      /\ ~checkCommandSafety(validToolCalls[callIdx].command).safe)
     => LET tc == validToolCalls[callIdx]
            stored == messages'[Len(messages')]
        IN /\ started' = started
           /\ events' = Append(events,
                               Event("tool_result", "run_command", tc.command,
                                     Refused(tc.command)))
           /\ Refused(tc.command).success = "false"
           /\ Len(messages') = Len(messages) + 1
           /\ stored.role = "tool"
           /\ stored.tool_call_id = tc.id
           /\ pc' = "resulted"]_vars

\* the chat() sequences whose generator has not returned
Undrained == {i \in 1..Len(generators) : generators[i] # "returned"}

\* C24: chat() is never invoked while a previous chat() sequence of the
\* agent has not returned: at most one sequence is undrained at any time,
\* auto-continue included.
C24_OneChatAtATime == Cardinality(Undrained) <= 1

(***************************************************************************)
(* The pruning steps of getMessages, one by one                            *)
(***************************************************************************)
\* positions of the assistant messages of ms that carry tool calls
ToolTurns(ms) == {i \in 1..Len(ms) : HasToolCalls(ms[i])}

\* the last 7 of them
LastToolTurns(ms) ==
  LET turns == ToolTurns(ms)
  IN {a \in turns : Cardinality({b \in turns : b > a}) < 7}

\* positions the tool-pruned view of ms is to keep
KeptByPruning(ms) ==
  LET last == LastToolTurns(ms)
      ids == UNION {{ms[a].tool_calls[j].id : j \in 1..Len(ms[a].tool_calls)} :
                    a \in last}
  IN {i \in 1..Len(ms) :
        \/ ms[i].role \in {"system", "user"}
        \/ ms[i].role = "assistant" /\ ~HasToolCalls(ms[i])
        \/ i \in last
        \/ ms[i].role = "tool" /\ ms[i].tool_call_id \in ids}

\* the positions of a formatted sequence ascend
InOriginalOrder(fs) == \A i \in 1..(Len(fs) - 1) : fs[i].idx < fs[i + 1].idx

\* C25: when pruning is triggered and the log holds more than 20 tool
\* messages, the tool-pruned view keeps, in original order, exactly the
\* system, user and plain assistant messages, the last 7 assistant messages
\* with tool calls and the tool messages answering those.
C25_KeepsLastSevenTurns ==
  (/\ viewPath \in {"pruned", "minimal"}
   /\ Len(SelectSeq(messages, IsToolMsg)) > MAX_TOOL_MESSAGES)
  => LET pruned == PruneTools(Formatted(messages))
         kept == KeptByPruning(messages)
     IN /\ Indices(pruned) = kept
        /\ InOriginalOrder(pruned)
        /\ Len(pruned) = Cardinality(kept)

\* a view of a session of more than 7 rounds: the tool-bearing assistant
\* messages of the view are the last 7 of the log
C25_Witness ==
  /\ viewPath = "pruned"
  /\ Len(SelectSeq(messages, IsToolMsg)) > MAX_TOOL_MESSAGES
  /\ Cardinality(ToolTurns(messages)) > 7
  /\ Len(SelectSeq(view, HasToolCalls)) = 7
  /\ Len(SelectSeq(view, IsToolMsg)) = 7 * SavedBatch

\* the view is over the token budget after tool pruning and truncation
StillOverBudget ==
  LET formatted == Formatted(messages)
  IN /\ ~UnderLimit(formatted)
     /\ TotalTokens(Truncated(PruneTools(formatted))) > MAX_CONTEXT_TOKENS

\* the first system message of fs followed by its last 6 other messages
SystemAndLastSix(fs) ==
  LET NotSystem(m) == m.role # "system"
  IN FindSystem(fs) \o SliceLast(SelectSeq(fs, NotSystem), 6)

\* C26 as stated: the minimal view is the system message followed by the
\* last 6 non-system messages of the log, as the log holds them, and it is
\* returned exactly when the view is still over budget after tool pruning
\* and truncation.
C26_LastSixOfLog ==
  viewPath # "none" =>
    /\ viewPath = "minimal" <=> StillOverBudget
    /\ viewPath = "minimal" =>
         view = StripIdx(SystemAndLastSix(Formatted(messages)))

\* C26 amended: the minimal view is the system message followed by the last
\* 6 non-system messages of the log, each tool message among them carrying
\* its truncated content, and it is returned exactly when the view is still
\* over budget after tool pruning and truncation.
C26_LastSixTruncated ==
  viewPath # "none" =>
    /\ viewPath = "minimal" <=> StillOverBudget
    /\ viewPath = "minimal" =>
         view = StripIdx(SystemAndLastSix(Truncated(Formatted(messages))))

\* a minimal view of a longer log whose last messages include a tool result
\* that was cut to TRUNCATE_TOOL_RESULTS characters and the marker
C26_Witness ==
  /\ viewPath = "minimal"
  /\ Len(view) = 7
  /\ Len(messages) > 7
  /\ view[1].role = "system"
  /\ \E i \in 2..7 :
       /\ view[i].role = "tool"
       /\ view[i].content = TRUNCATE_TOOL_RESULTS + TRUNCATION_MARKER_LEN
       /\ messages[Len(messages) - 7 + i].content > TRUNCATE_TOOL_RESULTS

\* the naive view is within the token budget and the message-count ceiling
WithinLimits ==
  /\ TotalTokens(Formatted(messages)) <= 8000
  /\ Len(messages) <= 50

\* C27: within the token budget (8000) and the message-count ceiling (50)
\* getMessages() returns all stored messages in order with tool contents
\* untouched; otherwise every tool message of the view has at most 500
\* characters plus the marker, a stored tool content of more than 500
\* characters appears cut to 500 characters and the marker, shorter ones
\* appear as stored, and truncation removes no message.
C27_TruncateOnlyOverLimit ==
  viewPath # "none" =>
    LET formatted == Formatted(messages)
        pruned == PruneTools(formatted)
    IN /\ viewPath = "full" <=> WithinLimits
       /\ WithinLimits => view = StripIdx(formatted)
       /\ ~WithinLimits =>
            /\ Len(Truncated(pruned)) = Len(pruned)
            /\ \A i \in 1..Len(pruned) :
                 /\ Truncated(pruned)[i].idx = pruned[i].idx
                 /\ Truncated(pruned)[i].role = pruned[i].role
                 /\ Truncated(pruned)[i].tool_call_id = pruned[i].tool_call_id
                 /\ pruned[i].role # "tool" => Truncated(pruned)[i] = pruned[i]
            /\ viewPath = "pruned" => Len(view) = Len(pruned)
            /\ \A i \in 1..Len(view) :
                 view[i].role = "tool" =>
                   /\ view[i].content <= 500 + TRUNCATION_MARKER_LEN
                   /\ \E k \in 1..Len(messages) :
                        /\ messages[k].role = "tool"
                        /\ messages[k].tool_call_id = view[i].tool_call_id
                        /\ view[i].content =
                             IF messages[k].content > 500
                             THEN 500 + TRUNCATION_MARKER_LEN
                             ELSE messages[k].content

\* a full view that holds a long tool result untouched
C27_WitnessFull ==
  /\ viewPath = "full"
  /\ \E i \in 1..Len(view) : view[i].role = "tool" /\ view[i].content = 2000

\* a pruned view that holds a cut tool result beside a short one left as it
\* was, with as many messages as the log
C27_Witness ==
  /\ viewPath = "pruned"
  /\ Len(view) = Len(messages)
  /\ \E i, j \in 1..Len(view) :
       /\ view[i].role = "tool" /\ messages[i].content = 2000
       /\ view[i].content = 500 + TRUNCATION_MARKER_LEN
       /\ view[j].role = "tool" /\ view[j].content = 20
       /\ messages[j].content = 20

\* a step that is a call of addMessage or of addToolResult
IsAddMessageStep == IsAddStep /\ messages'[Len(messages')].role # "assistant"

NonSystem(ms) == LET NotSystem(m) == m.role # "system" IN SelectSeq(ms, NotSystem)

\* s is the end of t
IsSuffix(s, t) ==
  Len(s) <= Len(t) /\ s = SubSeq(t, Len(t) - Len(s) + 1, Len(t))

\* C30: after addMessage or addToolResult the store holds at most
\* MAX_HISTORY_MESSAGES (100) messages, the first system message of the log
\* before the call is still stored, as the first element when the log was
\* trimmed, and the retained non-system messages are the most recent ones of
\* the extended log in their order.
C30_TrimKeepsSystemAndRecent ==
  [][IsAddMessageStep =>
       LET pushed == Append(messages, messages'[Len(messages')])
           trimmed == Len(messages') < Len(pushed)
       IN /\ Len(messages') <= 100
          /\ FindSystem(messages') = FindSystem(messages)
          /\ trimmed => /\ FindSystem(messages) # <<>>
                        /\ messages'[1] = FindSystem(messages)[1]
                        /\ Len(messages') = 100
          /\ IsSuffix(NonSystem(messages'), NonSystem(pushed))]_vars

\* a log of 100 messages that addToolResult cut out of 102: the system
\* message leads and the result added last closes the log
C30_Witness ==
  /\ appended = MaxAppends
  /\ Len(messages) = MAX_HISTORY_MESSAGES
  /\ messages[1].role = "system"
  /\ messages[Len(messages)].role = "tool"
  /\ messages[Len(messages) - 1].role = "assistant"

(***************************************************************************)
(* One result per dispatched call                                          *)
(***************************************************************************)
\* number of tool messages of the log that answer the call announced by the
\* k-th tool_call event, and number of tool_result events that follow it
\* before the next tool_call event
Announced == {i \in 1..Len(events) : events[i].type = "tool_call"}

ResultsAfter(i) ==
  LET later == {k \in Announced : k > i}
      stop == IF later = {} THEN Len(events) + 1
              ELSE CHOOSE k \in later : \A n \in later : k <= n
  IN Cardinality({k \in (i + 1)..(stop - 1) : events[k].type = "tool_result"})

\* C28: every valid tool call that chat() dispatched and is done with has
\* exactly one tool message in the conversation and exactly one tool_result
\* event, whether the tool returned, failed or threw and whether the
\* onToolResult callback returned or threw.
C28_OneResultPerCall ==
  pc \in {"resulted", "caught", "loop", "finished"} =>
    /\ StoredResults = CountEvents("tool_call")
    /\ \A i \in Announced : ResultsAfter(i) = 1

(***************************************************************************)
(* Clearing the conversation: Agent.clearHistory and the REPL's /clear     *)
(***************************************************************************)
\* agent.clearHistory(): getConversation().clear(), then this.initialize()
\* sets the system prompt again
ClearHistory ==
  /\ \E len \in SystemLens :
       messages' = setSystemMessage(clear(messages), len)
  /\ view' = <<>> /\ viewPath' = "none"
  /\ UNCHANGED <<nextId, appended, chatVars, shellVars>>
  /\ UNCHANGED extVars

\* /clear: newConversation() makes a new ConversationManager the current
\* conversation; its messages are [] and the agent is not initialized again
SlashClear ==
  /\ messages' = <<>>
  /\ view' = <<>> /\ viewPath' = "none"
  /\ UNCHANGED <<nextId, appended, chatVars, shellVars>>
  /\ UNCHANGED extVars

SessionNext ==
  \/ StoreNext
  \/ ClearHistory
  \/ SlashClear

\* the conversation of a REPL session: created by createAgent, loaded,
\* extended, viewed and cleared
SessionSpec == StoreInit /\ [][SessionNext]_vars

\* C29: every view handed to the provider (made of a log that holds the
\* user message chat() stored) starts with the system prompt, after
\* createAgent, clearHistory, /clear, loading a session, trimming and the
\* minimal fallback.
C29_ViewStartsWithSystem ==
  (viewPath # "none" /\ messages # <<>>) =>
    (Len(view) > 0 /\ view[1].role = "system")

(***************************************************************************)
(* The bound of auto-continue                                              *)
(***************************************************************************)
\* sendMessage('continue') calls made for the message the user entered last:
\* every chat() sequence after the first was started by one
ContinuesInARow == IF generators = <<>> THEN 0 ELSE Len(generators) - 1

\* a step in which a response completes (done was handled) and sendMessage
\* ends without having called sendMessage('continue')
CompletesWithoutContinue ==
  /\ Top > 0 /\ generators[Top] = "suspended" /\ processing
  /\ generators' = [generators EXCEPT ![Top] = "returned"]

\* C31: for one message entered by the user, sendMessage re-prompts with
\* 'continue' at most autoContinueMax (8) times in a row; autoContinueCount
\* never exceeds autoContinueMax; and a response that completes without
\* meeting shouldAutoContinue resets the counter to 0.
C31_AutoContinueBounded ==
  /\ [](ContinuesInARow <= 8)
  /\ [](autoContinueCount \in 0..8)
  /\ [][(CompletesWithoutContinue
           /\ ~shouldAutoContinue(response, lastToolCallCount))
        => autoContinueCount' = 0]_vars
  /\ [][Len(generators') = Len(generators) + 1 /\ generators # <<>>
        => autoContinueCount' = autoContinueCount + 1]_vars

\* the limit was reached: 8 automatic 'continue' messages followed one user
\* message, and the 9th response, again unfinished, ended sendMessage
C31_Witness ==
  /\ Len(generators) = autoContinueMax + 1
  /\ autoContinueCount = autoContinueMax
  /\ generators[Top] = "returned"
  /\ ~processing
  /\ shouldAutoContinue(response, lastToolCallCount)

\* a chain of automatic continues that ended by a complete response, which
\* reset the counter
C31_WitnessReset ==
  /\ Len(generators) > 2
  /\ autoContinueCount = 0
  /\ generators[Top] = "returned"
  /\ ~shouldAutoContinue(response, lastToolCallCount)
  /\ response = "long"

(***************************************************************************)
(* The file cache                                                          *)
(***************************************************************************)
\* the keys of the access-order list
Listed == {accessOrder[i] : i \in 1..Len(accessOrder)}

\* C32: after any sequence of set, get (also of an entry the TTL expired),
\* invalidate and clear, the cache holds at most maxSize entries and the
\* keys of the access-order list are the cached keys.
C32_SizeAndOrderAgree ==
  /\ Cardinality(Cached(fileCache)) <= CacheMaxSize
  /\ Listed = Cached(fileCache)

\* the least recently used of the cached keys: the first of them in the
\* order of last get hit or set
LeastRecentlyUsed ==
  LET IsCached(k) == fileCache[k] # <<>>
  IN Head(SelectSeq(useOrder, IsCached))

\* C33: a set of a new key on a cache at capacity evicts exactly one entry,
\* the least recently used one: the cached key whose last get hit or set is
\* older than that of every other cached key.
C33_EvictsLeastRecentlyUsed ==
  [][\A k \in Paths :
       (/\ fileCache[k] = <<>>
        /\ fileCache'[k] # <<>>
        /\ Cardinality(Cached(fileCache)) >= CacheMaxSize)
       => Cached(fileCache') =
            (Cached(fileCache) \ {LeastRecentlyUsed}) \cup {k}]_vars

\* C34: after a successful write_file, edit_file, delete_file or rename_file
\* on a path, a following full read_file of the path does not return the
\* content the path held before that operation (unless the operation left
\* that very content there).
C34_ReadAfterModification ==
  \A p \in FilePaths :
    (/\ lastRead # <<>>
     /\ lastRead[1].path = p
     /\ prior[p] # <<>>
     /\ prior[p][1] # files[p])
    => lastRead[1].content # prior[p][1]

(***************************************************************************)
(* Undo                                                                    *)
(***************************************************************************)
\* C35: undo is last-in-first-out and restores state: each undo() on a
\* history that is not empty takes the most recent entry and leaves the
\* disk as it was before the modification of that entry (the content of a
\* file that existed, no file where there was none, the file that was
\* deleted), so that once every modification is undone the disk is as it
\* was before the first one; undo() on an empty history returns
\* {success: false, error: 'No changes to undo'} and changes nothing.
C35_UndoRestores ==
  /\ [](Len(before) = Len(history) /\ Len(history) <= 20)
  /\ [][Len(history') < Len(history) =>
          /\ history' = Tail(history)
          /\ files' = before[1]
          /\ undoResult' = <<UndoDone>>]_vars
  /\ [](history = <<>> => files = InitialDisk)
  /\ [][(history = <<>> /\ undoResult' # <<>>) =>
          /\ undoResult' = <<[success |-> FALSE, error |-> "No changes to undo"]>>
          /\ files' = files
          /\ history' = <<>>]_vars

\* MaxEdits backed-up modifications were made and undone, the last undo
\* emptied the history, and the disk is as it was found
C35_Witness ==
  /\ backups = MaxEdits
  /\ history = <<>>
  /\ undoResult = <<UndoDone>>
  /\ files = InitialDisk

(***************************************************************************)
(* MCP requests                                                            *)
(***************************************************************************)
Sent == 1..messageId

LiveProcesses(name) ==
  {p \in 1..Len(procs) : procs[p].name = name /\ IsLive(procs[p])}

\* C37: a server registered under a name stays registered until
\* disconnectServer is called for it or its own process closes (so the late
\* close event of an earlier process of that name leaves it registered), and
\* connectServer calls that overlap leave at most one running process per
\* name.
C37_RegisteredUntilClosed ==
  /\ [][\A name \in ServerNames :
          (registered[name] # 0 /\ registered'[name] # registered[name])
          => ~IsLive(procs'[registered[name]])]_vars
  /\ [](\A name \in ServerNames : Cardinality(LiveProcesses(name)) <= 1)

\* the first half of C37 alone: the registration of a running server stays
C37_LateCloseKeepsNewer ==
  [][\A name \in ServerNames :
       (registered[name] # 0 /\ registered'[name] = 0)
       => ~IsLive(procs'[registered[name]])]_vars

\* the second half of C37 alone: one running process per name
C37_OneProcessPerName ==
  \A name \in ServerNames : Cardinality(LiveProcesses(name)) <= 1

(***************************************************************************)
(* executeMcpTool: attempts                                                *)
(***************************************************************************)
\* C38: an executeMcpTool invocation calls callTool at most 2 times; a
\* second call follows only a first call that failed with an error whose
\* message says timeout, so an error of another kind ends the invocation
\* with that first call; and the invocation never raises: once it is over
\* it has returned { success: true, ... } or { error, ... }.
C38_AtMostTwoAttempts ==
  LET log == attemptLog
  IN /\ Len(log) <= 2
     /\ attempt <= 2
     /\ Len(log) = 2 => Includes(log[1], "timeout")
     /\ (Len(log) >= 1 /\ ~Includes(log[1], "timeout"))
          => (mcpPhase \in {"returned", "idle"} /\ Len(log) = 1)
     /\ mcpPhase # "raised"
     /\ mcpPhase \in {"returned", "idle"} /\ mcpTool # ""
          => /\ Len(mcpResult) = 1
             /\ \/ mcpResult[1].success /\ mcpResult[1].error = ""
                \/ ~mcpResult[1].success /\ mcpResult[1].error # ""
             /\ mcpResult[1].success <=> (log # <<>> /\ log[Len(log)] = "")
     /\ mcpPhase \in {"calling", "waiting"} => mcpResult = <<>>

\* a timeout, a retry, and the error of the second attempt returned
C38_Witness ==
  /\ mcpPhase = "returned"
  /\ Len(attemptLog) = 2
  /\ Includes(attemptLog[1], "timeout")
  /\ attemptLog[2] # ""
  /\ mcpResult = <<McpFailure(attemptLog[2])>>

(***************************************************************************)
(* MCP tool names                                                          *)
(***************************************************************************)
\* C39: for every connected server S and every tool T it lists, the name
\* mcp_S_T that getMcpTools publishes is an MCP tool for isMcpTool, and
\* executeMcpTool takes S for the server and T for the tool of that name and
\* so reaches the connected server, whether or not S or T holds an
\* underscore; mcp_connect and mcp_list are not MCP tools for isMcpTool.
C39_NamesRoundTrip ==
  /\ \A s \in DOMAIN servers :
       \A t \in servers[s] :
         LET name == PublishedName(s, t)
         IN /\ isMcpTool(name)
            /\ McpServerPart(name) = s
            /\ McpToolPart(name) = t
  /\ executed # <<>>
       => /\ executed[1].isMcpTool
          /\ executed[1].serverName = executed[1].server
          /\ executed[1].actualToolName = executed[1].tool
          /\ executed[1].outcome = ToolRan
  /\ ~isMcpTool("mcp_connect")
  /\ ~isMcpTool("mcp_list")

\* the part of C39 about names without an underscore in the server name and
\* without one at the start of the tool name
C39_PlainServerNames ==
  /\ \A s \in DOMAIN servers :
       \A t \in servers[s] :
         (~Includes(s, "_") /\ ~LitAt(t, 1, "_"))
           => LET name == PublishedName(s, t)
              IN /\ isMcpTool(name)
                 /\ McpServerPart(name) = s
                 /\ McpToolPart(name) = t
  /\ ~isMcpTool("mcp_connect")
  /\ ~isMcpTool("mcp_list")

====
